---- MODULE Spec2Model ----
(***************************************************************************)
(* Model of the simulation and dispatch engine of portfolio-loc-maxxer:    *)
(*   - generateCashFlowSchedule            (scripts/integration.js)        *)
(*   - runSimulationWithAdapter and aggregateWorkerResults                 *)
(*                                         (scripts/integration.js)        *)
(*   - runSimulation, calculateBenchmark, calculateLeveragedStrategy       *)
(*                                         (assembly/index.ts)             *)
(*   - the path loop of runSimulationLegacy (scripts/script.js)            *)
(*                                                                         *)
(* Money is modelled by integers and the arithmetic of the source is kept  *)
(* exact: rates and return factors are drawn from values for which every   *)
(* product and quotient of the source is an integer.  JavaScript arrays    *)
(* are functions on 0..n-1, so that indices are those of the source.       *)
(***************************************************************************)
EXTENDS Integers, Sequences, FiniteSets, TLC

\* ------------------------------------------------------------------------
\* Bounds of the model
\* ------------------------------------------------------------------------
MaxMonths == 3
MaxLoan == 2
MaxRate == 1
MaxPayment == 4

\* ------------------------------------------------------------------------
\* JavaScript arrays: functions on 0..n-1
\* ------------------------------------------------------------------------
EmptyArr == <<>>

ArrLen(a) == Cardinality(DOMAIN a)

Push(a, v) == [i \in 0..ArrLen(a) |-> IF i < ArrLen(a) THEN a[i] ELSE v]

Max(a, b) == IF a >= b THEN a ELSE b

Min(a, b) == IF a <= b THEN a ELSE b

\* ------------------------------------------------------------------------
\* State
\* ------------------------------------------------------------------------
VARIABLES
    genPc,          \* generateCashFlowSchedule: "idle" | "called" | "returned"
    genArgs,        \* its arguments: loanAmount, monthlyRate, payment, monthlyBudget, months
    genResult,      \* its return value: [debtPath, depositPath]
    aggPc,          \* aggregateWorkerResults: "idle" | "called" | "returned" | "threw"
    aggArgs,        \* its arguments: workerResults, uiInputs
    aggResult,      \* its return value: the aggregated object
    dispPc,         \* runSimulationWithAdapter: "idle" | "start" | "waiting" | "returned"
    dispInputs,     \* validateInputs(), isWasmAvailable() and uiInputs
    worker,         \* per unit: "none" | "running" | "done" | "terminated"
    inbox,          \* per unit: the event the worker has sent and the page has not handled
    promise,        \* per unit: "none" | "pending" | "resolved" | "rejected"
    settled,        \* per unit: the value or the reason its promise was settled with
    timeout,        \* per unit: "none" | "armed" | "cleared" | "fired"
    dispResult,     \* what runSimulationWithAdapter returned
    dispError,      \* the error caught at the top level (shown by alert)
    runPc,          \* runSimulation: "idle" | "start" | "benchmark" | "strategies" | "returned" | "trapped"
    runInputs,      \* inputBuffer[13], [8] and [14]: numStrategies, simulationCount, baselineSimulationCount
    outputIdx,      \* the local outputIdx of runSimulation
    outStatus,      \* outputBuffer[0]
    outScenarios,   \* outputBuffer[1]
    strategyI,      \* the loop variable i of runSimulation
    blocks,         \* per scenario block written: its first index, its count field, the values stored
    lastWrite,      \* the largest index of outputBuffer a write has targeted
    runReturn,      \* the value runSimulation returned
    pathPc,         \* the path simulator: "idle" | "path" | "month" | "done" | "trapped"
    pathArgs,       \* the engine and the parameters of the strategy
    pathS,          \* the loop variable s: the path being simulated
    pathT,          \* the number of months of path s simulated so far
    assets,         \* the local assets of the path
    debt,           \* the local debt of the path
    ruined,         \* the local ruined of the path
    results,        \* results of index.ts, finalWealths of script.js
    survivorCount,  \* survivorCount of index.ts, survivedCount of script.js
    benchmarkAssets,    \* script.js: the local benchmarkAssets of the path
    benchmarkWealths,   \* script.js: benchmarkWealths
    pathOutcome,    \* what the strategy reports: count, wealth values and statistics
    paths,          \* history, per path: months simulated, month of the breach, wealth recorded
    recvPc,         \* a receiver of an output buffer: "idle" | "called" | "returned" | "failed"
    recvArgs,       \* the receiver, the buffer it is given and uiInputs.numStrategies
    recvResult,     \* what the receiver produced: a message, an outcome object, or nothing
    marshalPc,      \* a worker's request: "idle" | "request" | "marshalled" | "read"
    request,        \* e.data.inputs of the worker
    inputBuffer,    \* inputBuffer of index.ts
    simInputs,      \* the inputs runSimulation has read from inputBuffer
    formPc,         \* position of the run request: idle, submitted, rejected, started
    form,           \* the values of the input elements of the page
    started,        \* what the accepted request starts: engine, months, monthlyBudget
    legPc,          \* position in runSimulationLegacy
    legArgs,        \* loan, mRate, minPayment, monthlyBudget, months of the call
    allSchedules,   \* allSchedules of runSimulationLegacy
    schedulePayments, \* the payment each entry of allSchedules was generated with
    legI,           \* the loop variable i
    legResults,     \* results of runSimulationLegacy
    adWorker,       \* this.worker of the SimulationAdapter: none or created
    requestId,      \* this.requestId
    pendingRequests, \* the keys of this.pendingRequests
    adSent,         \* the request ids of the run() calls, in call order
    adPromise,      \* the state of the promise of each request
    settleCalls,    \* how often resolve or reject of each request was called
    workerInbox,    \* the requests the worker has received and not answered
    adInbox,        \* the messages of the worker that onmessage has not handled yet
    crashes,        \* the number of error events of the worker
    wkKind,         \* which worker script runs: strategy (adapter.js) or batch (part_002)
    wkPos,          \* the position of the handler of each request message
    wkRunning,      \* the request whose handler is executing, or -1
    wasmInstance,   \* wasmInstance of the worker: the request whose initWasm created it, or -1
    wasmInput,      \* the request whose inputs are in the input buffer of each instance, or -1
    wasmOutput,     \* the request whose inputs the output buffer of each instance was computed from, or -1
    wkPosted,       \* the message posted for each request
    batRead         \* what unmarshallResults read of the buffer of the batch worker

genVars == <<genPc, genArgs, genResult>>

aggVars == <<aggPc, aggArgs, aggResult>>

dispVars == <<dispPc, dispInputs, worker, inbox, promise, settled, timeout, dispResult, dispError>>

runVars == <<runPc, runInputs, outputIdx, outStatus, outScenarios, strategyI, blocks, lastWrite, runReturn>>

pathVars == <<pathPc, pathArgs, pathS, pathT, assets, debt, ruined, results, survivorCount, benchmarkAssets, benchmarkWealths, pathOutcome, paths>>

recvVars == <<recvPc, recvArgs, recvResult>>

marshalVars == <<marshalPc, request, inputBuffer, simInputs>>

formVars == <<formPc, form, started>>

legVars == <<legPc, legArgs, allSchedules, schedulePayments, legI, legResults>>

adapterVars == <<adWorker, requestId, pendingRequests, adSent, adPromise, settleCalls, workerInbox, adInbox, crashes>>

wkVars == <<wkKind, wkPos, wkRunning, wasmInstance, wasmInput, wasmOutput, wkPosted>>

batVars == <<batRead>>

vars == <<genVars, aggVars, dispVars, runVars, pathVars, recvVars, marshalVars, formVars, legVars, adapterVars, wkVars, batVars>>

notGen == <<aggVars, dispVars, runVars, pathVars, recvVars, marshalVars, formVars, legVars, adapterVars, wkVars, batVars>>

notAgg == <<genVars, dispVars, runVars, pathVars, recvVars, marshalVars, formVars, legVars, adapterVars, wkVars, batVars>>

notDisp == <<genVars, aggVars, runVars, pathVars, recvVars, marshalVars, formVars, legVars, adapterVars, wkVars, batVars>>

notRun == <<genVars, aggVars, dispVars, pathVars, recvVars, marshalVars, formVars, legVars, adapterVars, wkVars, batVars>>

notPath == <<genVars, aggVars, dispVars, runVars, recvVars, marshalVars, formVars, legVars, adapterVars, wkVars, batVars>>

notRecv == <<genVars, aggVars, dispVars, runVars, pathVars, marshalVars, formVars, legVars, adapterVars, wkVars, batVars>>

notMarshal == <<genVars, aggVars, dispVars, runVars, pathVars, recvVars, formVars, legVars, adapterVars, wkVars, batVars>>

notForm == <<genVars, aggVars, dispVars, runVars, pathVars, recvVars, marshalVars, legVars, adapterVars, wkVars, batVars>>

notLeg == <<genVars, aggVars, dispVars, runVars, pathVars, recvVars, marshalVars, formVars, adapterVars, wkVars, batVars>>

notAdapter == <<genVars, aggVars, dispVars, runVars, pathVars, recvVars, marshalVars, formVars, legVars, wkVars, batVars>>

notWk == <<genVars, aggVars, dispVars, runVars, pathVars, recvVars, marshalVars, formVars, legVars, adapterVars, batVars>>

notBat == <<genVars, aggVars, dispVars, runVars, pathVars, recvVars, marshalVars, formVars, legVars, adapterVars, wkVars>>

\* ------------------------------------------------------------------------
\* The parts of the engine that a specification does not exercise stay idle.
\* ------------------------------------------------------------------------
NoSchedule == [debtPath |-> EmptyArr, depositPath |-> EmptyArr]

NoArgs == <<>>

NoResult == <<>>

GenIdle ==
    /\ genPc = "idle"
    /\ genArgs = NoArgs
    /\ genResult = NoSchedule

AggIdle ==
    /\ aggPc = "idle"
    /\ aggArgs = NoArgs
    /\ aggResult = NoResult

NoError == [none |-> TRUE]

DispIdle ==
    /\ dispPc = "idle"
    /\ dispInputs = NoArgs
    /\ worker = <<>>
    /\ inbox = <<>>
    /\ promise = <<>>
    /\ settled = <<>>
    /\ timeout = <<>>
    /\ dispResult = NoResult
    /\ dispError = NoError

RunIdle ==
    /\ runPc = "idle"
    /\ runInputs = NoArgs
    /\ outputIdx = 0
    /\ outStatus = 0
    /\ outScenarios = 0
    /\ strategyI = 0
    /\ blocks = EmptyArr
    /\ lastWrite = -1
    /\ runReturn = NoResult

PathIdle ==
    /\ pathPc = "idle"
    /\ pathArgs = NoArgs
    /\ pathS = 0
    /\ pathT = 0
    /\ assets = 0
    /\ debt = 0
    /\ ruined = FALSE
    /\ results = EmptyArr
    /\ survivorCount = 0
    /\ benchmarkAssets = 0
    /\ benchmarkWealths = EmptyArr
    /\ pathOutcome = NoResult
    /\ paths = EmptyArr

RecvIdle ==
    /\ recvPc = "idle"
    /\ recvArgs = NoArgs
    /\ recvResult = NoResult

MarshalIdle ==
    /\ marshalPc = "idle"
    /\ request = NoArgs
    /\ inputBuffer = <<>>
    /\ simInputs = NoResult

FormIdle ==
    /\ formPc = "idle"
    /\ form = NoArgs
    /\ started = NoResult

BatIdle == batRead = NoResult

WkIdle ==
    /\ wkKind = "idle"
    /\ wkPos = <<>>
    /\ wkRunning = -1
    /\ wasmInstance = -1
    /\ wasmInput = <<>>
    /\ wasmOutput = <<>>
    /\ wkPosted = <<>>

AdapterIdle ==
    /\ adWorker = "idle"
    /\ requestId = 0
    /\ pendingRequests = {}
    /\ adSent = EmptyArr
    /\ adPromise = <<>>
    /\ settleCalls = <<>>
    /\ workerInbox = {}
    /\ adInbox = <<>>
    /\ crashes = 0

LegIdle ==
    /\ legPc = "idle"
    /\ legArgs = NoArgs
    /\ allSchedules = EmptyArr
    /\ schedulePayments = EmptyArr
    /\ legI = 0
    /\ legResults = EmptyArr

\* ------------------------------------------------------------------------
\* generateCashFlowSchedule (scripts/integration.js)
\* ------------------------------------------------------------------------

\* One iteration of the loop body, for month t, without the forced payoff of
\* the final month.
ScheduleMonthNoForcedPayoff(t, currentDebt, monthlyRate, payment, monthlyBudget, months) ==
    IF currentDebt > 0
    THEN LET interest == currentDebt * monthlyRate
             principalReduction == payment - interest
         IN  IF principalReduction >= currentDebt
             THEN [currentDebt |-> 0,
                   deposit |-> monthlyBudget - (currentDebt + interest)]
             ELSE [currentDebt |-> currentDebt - principalReduction,
                   deposit |-> monthlyBudget - payment]
    ELSE [currentDebt |-> currentDebt, deposit |-> monthlyBudget]

\* One iteration of the loop body, for month t: the new currentDebt and the
\* value pushed on depositPath.
ScheduleMonth(t, currentDebt, monthlyRate, payment, monthlyBudget, months) ==
    IF currentDebt > 0
    THEN LET interest == currentDebt * monthlyRate
             principalReduction == payment - interest
         IN  IF t = months \/ principalReduction >= currentDebt
             THEN LET actualPaymentNeeded == currentDebt + interest
                      surplusThisMonth == monthlyBudget - actualPaymentNeeded
                  IN  [currentDebt |-> 0, deposit |-> surplusThisMonth]
             ELSE [currentDebt |-> currentDebt - principalReduction,
                   deposit |-> monthlyBudget - payment]
    ELSE [currentDebt |-> currentDebt, deposit |-> monthlyBudget]

RECURSIVE ScheduleLoop(_, _, _, _, _, _, _, _)
ScheduleLoop(t, currentDebt, debtPath, depositPath, monthlyRate, payment, monthlyBudget, months) ==
    IF t > months
    THEN [debtPath |-> debtPath, depositPath |-> depositPath]
    ELSE LET m == ScheduleMonth(t, currentDebt, monthlyRate, payment, monthlyBudget, months)
         IN  ScheduleLoop(t + 1, m.currentDebt,
                          Push(debtPath, Max(0, m.currentDebt)),
                          Push(depositPath, m.deposit),
                          monthlyRate, payment, monthlyBudget, months)

generateCashFlowSchedule(loanAmount, monthlyRate, payment, monthlyBudget, months) ==
    ScheduleLoop(1, loanAmount, Push(EmptyArr, loanAmount), Push(EmptyArr, 0),
                 monthlyRate, payment, monthlyBudget, months)

\* A call of generateCashFlowSchedule with arguments drawn from the bounded
\* sets (payment may be negative, zero, below or above the monthly interest).
GenInit ==
    /\ AggIdle
    /\ MarshalIdle
    /\ BatIdle
    /\ WkIdle
    /\ AdapterIdle
    /\ LegIdle
    /\ FormIdle
    /\ RecvIdle
    /\ PathIdle
    /\ DispIdle
    /\ RunIdle
    /\ genPc = "called"
    /\ genArgs \in [loanAmount : 0..MaxLoan,
                    monthlyRate : 0..MaxRate,
                    payment : (-1)..MaxPayment,
                    monthlyBudget : {0, 1, 3},
                    months : 0..MaxMonths]
    /\ genResult = NoSchedule

GenerateCashFlowSchedule ==
    /\ genPc = "called"
    /\ genResult' = generateCashFlowSchedule(genArgs.loanAmount, genArgs.monthlyRate,
                                             genArgs.payment, genArgs.monthlyBudget,
                                             genArgs.months)
    /\ genPc' = "returned"
    /\ UNCHANGED <<genArgs, notGen>>

GenNext == GenerateCashFlowSchedule

SpecSched == GenInit /\ [][GenNext]_vars

\* ------------------------------------------------------------------------
\* C3: for months >= 1, loanAmount >= 0 and monthlyRate >= 0, and any payment,
\* the returned debtPath has months+1 entries, debtPath[0] = loanAmount,
\* debtPath[i] >= 0 for every i, and debtPath[months] = 0.
\* ------------------------------------------------------------------------
C3_DebtPathPaidOff ==
    (genPc = "returned" /\ genArgs.months >= 1 /\ genArgs.loanAmount >= 0
        /\ genArgs.monthlyRate >= 0)
    => /\ DOMAIN genResult.debtPath = 0..genArgs.months
       /\ genResult.debtPath[0] = genArgs.loanAmount
       /\ \A i \in 0..genArgs.months : genResult.debtPath[i] >= 0
       /\ genResult.debtPath[genArgs.months] = 0

\* A schedule whose payment is below the monthly interest: the debt grows
\* until the final month, and is then forced to zero.
C3_Witness ==
    /\ genPc = "returned"
    /\ genArgs.months >= 2
    /\ genArgs.loanAmount > 0
    /\ genArgs.payment < genArgs.loanAmount * genArgs.monthlyRate
    /\ genResult.debtPath[genArgs.months - 1] > genArgs.loanAmount
    /\ genResult.debtPath[genArgs.months] = 0

\* ------------------------------------------------------------------------
\* aggregateWorkerResults and unmarshalStrategyResults (scripts/integration.js)
\* ------------------------------------------------------------------------

\* The number of compute units of a dispatch, the benchmark included (21 in
\* the source; the model runs fewer).
NUM_UNITS == 3

LeveragedCount == NUM_UNITS - 1

UnitIndices == 0..(NUM_UNITS - 1)

Arr(s) == [i \in 0..(Len(s) - 1) |-> s[i + 1]]

Concat(a, b) ==
    [i \in 0..(ArrLen(a) + ArrLen(b) - 1) |->
        IF i < ArrLen(a) THEN a[i] ELSE b[i - ArrLen(a)]]

\* The output buffer of a single-strategy unit: 9 scalar fields, then
\* depositPath, debtPath and the wealth array.
StrategyBuffer(status, months, survivalRate, medianWealth, p90Wealth, expectedWealth, finalDebt, totalDeposits, numSurvived, depositPath, debtPath, wealthArray) ==
    Concat(Arr(<<status, months, survivalRate, medianWealth, p90Wealth, expectedWealth,
                 finalDebt, totalDeposits, numSurvived>>),
           Concat(depositPath, Concat(debtPath, wealthArray)))

\* The values of expectedWealth the units report.
ExpectedValues == {-2, 0, 2, 4}

\* Buffers a unit can produce with status 0: a one-month strategy with one
\* survivor of wealth e, and a strategy of zero months with no survivor.
OneSurvivorBuffer(e) ==
    StrategyBuffer(0, 1, 100, e, e, e, 0, 1, 1, Arr(<<0, 1>>), Arr(<<e + 2, 0>>), Arr(<<e>>))

NoSurvivorBuffer ==
    StrategyBuffer(0, 0, 0, 0, 0, 0, 3, 0, 0, Arr(<<0>>), Arr(<<3>>), EmptyArr)

GoodBuffers == {OneSurvivorBuffer(e) : e \in ExpectedValues} \cup {NoSurvivorBuffer}

\* A buffer with a non-zero status.
FailedBuffer == StrategyBuffer(1, 0, 0, 0, 0, 0, 0, 0, 0, EmptyArr, EmptyArr, EmptyArr)

\* for (let i = 0; i < count && pos < rawBuffer.length; i++) out.push(rawBuffer[pos++])
ReadArray(rawBuffer, pos, count) ==
    [i \in 0..(Min(count, Max(0, ArrLen(rawBuffer) - pos)) - 1) |-> rawBuffer[pos + i]]

UnmarshalThrowsOnStatusOne(rawBuffer) == rawBuffer[0] = 1

\* if (status !== 0) throw new Error(...)
UnmarshalThrows(rawBuffer) == rawBuffer[0] # 0

unmarshalStrategyResults(rawBuffer) ==
    LET months == rawBuffer[1]
        numSurvived == rawBuffer[8]
        depositPath == ReadArray(rawBuffer, 9, months + 1)
        debtPath == ReadArray(rawBuffer, 9 + ArrLen(depositPath), months + 1)
        finalWealthArray ==
            ReadArray(rawBuffer, 9 + ArrLen(depositPath) + ArrLen(debtPath), numSurvived)
    IN  [survivalRate |-> rawBuffer[2],
         medianWealth |-> rawBuffer[3],
         p90Wealth |-> rawBuffer[4],
         expectedWealth |-> rawBuffer[5],
         finalWealthArray |-> finalWealthArray,
         depositPath |-> depositPath,
         debtPath |-> debtPath,
         numSurvived |-> numSurvived,
         months |-> months,
         benchmarkPercentDiff |-> 0,
         paymentAmount |-> 0,
         surplusAmount |-> 0]

\* uiInputs: maxPayment is the monthly budget, and the payments of the
\* leveraged strategies are evenly spaced from minPayment to maxPayment.
UiInputs ==
    {[minPayment |-> m, maxPayment |-> m + LeveragedCount * st,
      monthlyBudget |-> m + LeveragedCount * st] : m \in {0, 1}, st \in {1}}

\* minPayment + (maxPayment - minPayment) * ratio, with ratio = (leverageIndex + 1) / 20
InterpolatedPayment(uiInputs, strategyIndex) ==
    LET leverageIndex == strategyIndex - 1
    IN  uiInputs.minPayment
        + ((uiInputs.maxPayment - uiInputs.minPayment) * (leverageIndex + 1)) \div LeveragedCount

WithPaymentInfo(strategyData, strategyIndex, uiInputs) ==
    IF strategyIndex = 0
    THEN [strategyData EXCEPT !.paymentAmount = 0,
                              !.surplusAmount = uiInputs.monthlyBudget]
    ELSE [strategyData EXCEPT !.paymentAmount = InterpolatedPayment(uiInputs, strategyIndex),
                              !.surplusAmount = uiInputs.monthlyBudget
                                                - InterpolatedPayment(uiInputs, strategyIndex)]

CompareStrategyIndexReversed(a, b) == b.strategyIndex - a.strategyIndex

\* (a, b) => a.strategyIndex - b.strategyIndex
CompareStrategyIndex(a, b) == a.strategyIndex - b.strategyIndex

\* Array.prototype.sort with the comparator above (a stable sort): x is put
\* after the last element that does not compare greater than it.
RECURSIVE InsertSorted(_, _, _)
InsertSorted(sorted, x, k) ==
    IF k > 0 /\ CompareStrategyIndex(sorted[k - 1], x) > 0
    THEN InsertSorted(sorted, x, k - 1)
    ELSE [i \in 0..ArrLen(sorted) |->
            IF i < k THEN sorted[i] ELSE IF i = k THEN x ELSE sorted[i - 1]]

RECURSIVE SortLoop(_, _, _)
SortLoop(arr, k, sorted) ==
    IF k >= ArrLen(arr) THEN sorted
    ELSE SortLoop(arr, k + 1, InsertSorted(sorted, arr[k], ArrLen(sorted)))

SortByStrategyIndex(workerResults) == SortLoop(workerResults, 0, EmptyArr)

Null == [null |-> TRUE]

\* The loop over the sorted results: benchmark, strategies and schedules.
RECURSIVE AggregateLoop(_, _, _, _)
AggregateLoop(k, sorted, uiInputs, aggregated) ==
    IF k >= ArrLen(sorted) THEN aggregated
    ELSE LET result == sorted[k]
             strategyIndex == result.strategyIndex
             isBenchmark == strategyIndex = 0
             strategyData == WithPaymentInfo(unmarshalStrategyResults(result.rawResults),
                                             strategyIndex, uiInputs)
             schedule == [strategyIndex |-> strategyIndex,
                          isBenchmark |-> isBenchmark,
                          depositPath |-> strategyData.depositPath,
                          debtPath |-> strategyData.debtPath]
         IN  AggregateLoop(k + 1, sorted, uiInputs,
                [benchmark |-> IF isBenchmark THEN strategyData ELSE aggregated.benchmark,
                 strategies |-> IF isBenchmark THEN aggregated.strategies
                                ELSE Push(aggregated.strategies, strategyData),
                 schedules |-> Push(aggregated.schedules, schedule)])

\* ((strategy.expectedWealth - benchmark.expectedWealth) / benchmark.expectedWealth) * 100.0
\* (the values of the model make the quotient exact).
PercentDiff(strategyExpected, benchmarkExpected) ==
    ((strategyExpected - benchmarkExpected) * 100) \div benchmarkExpected

PostProcessGuardNonZero(aggregated) ==
    aggregated.benchmark # Null /\ aggregated.benchmark.expectedWealth # 0

\* if (aggregated.benchmark && aggregated.benchmark.expectedWealth > 0)
PostProcessGuard(aggregated) ==
    aggregated.benchmark # Null /\ aggregated.benchmark.expectedWealth > 0

\* The fields the post-processing loop sets on a strategy (amortizedPayment,
\* paymentPercent and benchmarkSigma, which only the presentation reads, are
\* left out).
LinkToBenchmark(strategy, benchmark) ==
    ("benchmarkPercentDiff" :> PercentDiff(strategy.expectedWealth, benchmark.expectedWealth)
     @@ "benchmarkWealthArray" :> benchmark.finalWealthArray
     @@ "benchmarkMedian" :> benchmark.medianWealth
     @@ "benchmarkExpected" :> benchmark.expectedWealth)
    @@ strategy

PostProcess(aggregated) ==
    IF PostProcessGuard(aggregated)
    THEN [aggregated EXCEPT !.strategies =
            [i \in DOMAIN aggregated.strategies |->
                LinkToBenchmark(aggregated.strategies[i], aggregated.benchmark)]]
    ELSE aggregated

AggregateThrows(workerResults) ==
    \E k \in DOMAIN workerResults : UnmarshalThrows(workerResults[k].rawResults)

aggregateWorkerResults(workerResults, uiInputs) ==
    PostProcess(AggregateLoop(0, SortByStrategyIndex(workerResults), uiInputs,
                              [benchmark |-> Null, strategies |-> EmptyArr,
                               schedules |-> EmptyArr]))

\* The outcome of strategy strategyIndex in workerResults, before post-processing.
OutcomeOf(workerResults, strategyIndex, uiInputs) ==
    LET k == CHOOSE j \in DOMAIN workerResults : workerResults[j].strategyIndex = strategyIndex
    IN  WithPaymentInfo(unmarshalStrategyResults(workerResults[k].rawResults),
                        strategyIndex, uiInputs)

IndexOrders == {p \in [UnitIndices -> UnitIndices] : \A i, j \in UnitIndices : p[i] = p[j] => i = j}

\* A call of aggregateWorkerResults: one result per unit, in any order.
AggInit ==
    /\ GenIdle
    /\ MarshalIdle
    /\ BatIdle
    /\ WkIdle
    /\ AdapterIdle
    /\ LegIdle
    /\ FormIdle
    /\ RecvIdle
    /\ PathIdle
    /\ DispIdle
    /\ RunIdle
    /\ aggPc = "called"
    /\ \E p \in IndexOrders, b \in [UnitIndices -> GoodBuffers \cup {FailedBuffer}], ui \in UiInputs :
          /\ Cardinality({i \in UnitIndices : b[i] = FailedBuffer}) <= 1
          /\ aggArgs = [workerResults |->
                           [k \in UnitIndices |-> [rawResults |-> b[k], strategyIndex |-> p[k]]],
                        uiInputs |-> ui]
    /\ aggResult = NoResult

AggregateReturns ==
    /\ aggPc = "called"
    /\ ~AggregateThrows(aggArgs.workerResults)
    /\ aggResult' = aggregateWorkerResults(aggArgs.workerResults, aggArgs.uiInputs)
    /\ aggPc' = "returned"
    /\ UNCHANGED <<aggArgs, notAgg>>

\* unmarshalStrategyResults throws on a non-zero status.
AggregateThrowsError ==
    /\ aggPc = "called"
    /\ AggregateThrows(aggArgs.workerResults)
    /\ aggPc' = "threw"
    /\ UNCHANGED <<aggArgs, aggResult, notAgg>>

AggNext == AggregateReturns \/ AggregateThrowsError

SpecAggregate == AggInit /\ [][AggNext]_vars

\* ------------------------------------------------------------------------
\* C6: for every order of the workers' results, benchmark is the outcome of
\* strategy index 0, strategies[k] the outcome of strategy index k+1 and
\* schedules[k].strategyIndex = k.
\* ------------------------------------------------------------------------
Unlinked(strategy) ==
    [f \in DOMAIN OutcomeOf(aggArgs.workerResults, 0, aggArgs.uiInputs) |->
        IF f = "benchmarkPercentDiff" THEN 0 ELSE strategy[f]]

C6_AggregateInIndexOrder ==
    aggPc = "returned"
    => /\ aggResult.benchmark = OutcomeOf(aggArgs.workerResults, 0, aggArgs.uiInputs)
       /\ DOMAIN aggResult.strategies = 0..(LeveragedCount - 1)
       /\ \A k \in 0..(LeveragedCount - 1) :
             Unlinked(aggResult.strategies[k])
                = OutcomeOf(aggArgs.workerResults, k + 1, aggArgs.uiInputs)
       /\ DOMAIN aggResult.schedules = UnitIndices
       /\ \A k \in UnitIndices : aggResult.schedules[k].strategyIndex = k

\* The results arrive in descending order of strategy index, with different
\* outcomes, and are aggregated.
C6_Witness ==
    /\ aggPc = "returned"
    /\ \A k \in UnitIndices : aggArgs.workerResults[k].strategyIndex = NUM_UNITS - 1 - k
    /\ aggResult.strategies[0].expectedWealth # aggResult.strategies[LeveragedCount - 1].expectedWealth

\* ------------------------------------------------------------------------
\* C10: after aggregation every leveraged outcome has benchmarkPercentDiff =
\* (expectedWealth - benchmark.expectedWealth) / benchmark.expectedWealth * 100
\* when benchmark.expectedWealth > 0, and 0 when benchmark.expectedWealth <= 0.
\* ------------------------------------------------------------------------
C10_PercentDiff ==
    aggPc = "returned"
    => \A k \in DOMAIN aggResult.strategies :
          LET s == aggResult.strategies[k]
              b == aggResult.benchmark.expectedWealth
          IN  /\ b > 0 => s.benchmarkPercentDiff * b = (s.expectedWealth - b) * 100
              /\ b <= 0 => s.benchmarkPercentDiff = 0

\* Both cases happen: a positive benchmark with a strategy below it, and a
\* benchmark of zero or less with a strategy of positive expected wealth.
C10_Witness ==
    /\ aggPc = "returned"
    /\ aggResult.benchmark.expectedWealth > 0
    /\ aggResult.strategies[0].benchmarkPercentDiff < 0

C10_WitnessDefault ==
    /\ aggPc = "returned"
    /\ aggResult.benchmark.expectedWealth <= 0
    /\ aggResult.strategies[0].expectedWealth > 0
    /\ aggResult.strategies[0].benchmarkPercentDiff = 0

\* ------------------------------------------------------------------------
\* runSimulationWithAdapter (scripts/integration.js) and the worker of one
\* strategy (scripts/adapter.js, self.onmessage)
\* ------------------------------------------------------------------------
NoEvent == [type |-> "none"]

NoValue == [none |-> TRUE]

\* new Error(`Strategy ${i} ...`): the strategy index the message names.
StrategyError(i, message) == [strategyIndex |-> i, message |-> message]

\* The error of unmarshalStrategyResults names no strategy index.
UnmarshalError == [message |-> "Strategy simulation failed with status"]

\* The output buffers the WASM module of a worker can leave.
WasmOutputs == {OneSurvivorBuffer(2), NoSurvivorBuffer, FailedBuffer}

\* Promise.all(promises): rejects with the first rejection, resolves once
\* every promise is resolved.  (Promise.any, for comparison.)
PromiseAnyState(p) ==
    IF \E i \in UnitIndices : p[i] = "resolved" THEN "resolved"
    ELSE IF \A i \in UnitIndices : p[i] = "rejected" THEN "rejected"
    ELSE "pending"

PromiseAllState(p) ==
    IF \E i \in UnitIndices : p[i] = "rejected" THEN "rejected"
    ELSE IF \A i \in UnitIndices : p[i] = "resolved" THEN "resolved"
    ELSE "pending"

\* The array Promise.all resolves with: the values of the resolved
\* promises, in the order of the promises.
RECURSIVE ResolvedValues(_, _, _, _)
ResolvedValues(p, v, i, acc) ==
    IF i >= NUM_UNITS THEN acc
    ELSE ResolvedValues(p, v, i + 1, IF p[i] = "resolved" THEN Push(acc, v[i]) ELSE acc)

DispatchInit ==
    /\ GenIdle
    /\ MarshalIdle
    /\ BatIdle
    /\ WkIdle
    /\ AdapterIdle
    /\ LegIdle
    /\ FormIdle
    /\ RecvIdle
    /\ PathIdle
    /\ AggIdle
    /\ RunIdle
    /\ dispPc = "start"
    /\ dispInputs \in [valid : BOOLEAN, wasmAvailable : BOOLEAN, uiInputs : UiInputs]
    /\ worker = [i \in UnitIndices |-> "none"]
    /\ inbox = [i \in UnitIndices |-> NoEvent]
    /\ promise = [i \in UnitIndices |-> "none"]
    /\ settled = [i \in UnitIndices |-> NoValue]
    /\ timeout = [i \in UnitIndices |-> "none"]
    /\ dispResult = NoResult
    /\ dispError = NoError

\* if (!validateInputs()) return null;
DispatchRejectsInputs ==
    /\ dispPc = "start"
    /\ ~dispInputs.valid
    /\ dispPc' = "returned"
    /\ dispResult' = [kind |-> "null"]
    /\ UNCHANGED <<dispInputs, worker, inbox, promise, settled, timeout, dispError, notDisp>>

\* if (!isWasmAvailable()) return runSimulationJS(uiInputs);
DispatchFallsBack ==
    /\ dispPc = "start"
    /\ dispInputs.valid
    /\ ~dispInputs.wasmAvailable
    /\ dispPc' = "returned"
    /\ dispResult' = [kind |-> "legacy"]
    /\ UNCHANGED <<dispInputs, worker, inbox, promise, settled, timeout, dispError, notDisp>>

\* The loop that creates the workers: each gets its promise, its timeout and
\* its request, and the function then awaits Promise.all.
DispatchSpawns ==
    /\ dispPc = "start"
    /\ dispInputs.valid
    /\ dispInputs.wasmAvailable
    /\ worker' = [i \in UnitIndices |-> "running"]
    /\ promise' = [i \in UnitIndices |-> "pending"]
    /\ timeout' = [i \in UnitIndices |-> "armed"]
    /\ dispPc' = "waiting"
    /\ UNCHANGED <<dispInputs, inbox, settled, dispResult, dispError, notDisp>>

\* The worker's self.onmessage: it posts a success with the raw buffer, or a
\* failure when WASM cannot be initialised or the status is not 0.
WorkerResponds(i) ==
    /\ worker[i] = "running"
    /\ \E wasmLoaded \in BOOLEAN, rawResults \in WasmOutputs :
          inbox' = [inbox EXCEPT ![i] =
                      IF ~wasmLoaded
                      THEN [type |-> "message", success |-> FALSE,
                            error |-> "WASM initialization failed"]
                      ELSE IF rawResults[0] # 0
                      THEN [type |-> "message", success |-> FALSE,
                            error |-> "WASM simulation failed with status"]
                      ELSE [type |-> "message", success |-> TRUE, rawResults |-> rawResults]]
    /\ worker' = [worker EXCEPT ![i] = "done"]
    /\ UNCHANGED <<dispPc, dispInputs, promise, settled, timeout, dispResult, dispError, notDisp>>

\* The worker raises an error event instead of answering.
WorkerCrashes(i) ==
    /\ worker[i] = "running"
    /\ inbox' = [inbox EXCEPT ![i] = [type |-> "error"]]
    /\ worker' = [worker EXCEPT ![i] = "done"]
    /\ UNCHANGED <<dispPc, dispInputs, promise, settled, timeout, dispResult, dispError, notDisp>>

SettleOverwrites(i, state, value) ==
    /\ promise' = [promise EXCEPT ![i] = state]
    /\ settled' = [settled EXCEPT ![i] = value]

\* resolve(value) and reject(reason) settle a pending promise only.
Settle(i, state, value) ==
    /\ promise' = IF promise[i] = "pending" THEN [promise EXCEPT ![i] = state] ELSE promise
    /\ settled' = IF promise[i] = "pending" THEN [settled EXCEPT ![i] = value] ELSE settled

\* The continuation of `await Promise.all(promises)`, which runs before the
\* next event is handled: the aggregate when every unit has resolved, and
\* the catch blocks (alert, return null) on the first rejection.
Continue(i) ==
    IF dispPc # "waiting" \/ PromiseAllState(promise') = "pending"
    THEN UNCHANGED <<dispPc, dispResult, dispError>>
    ELSE /\ dispPc' = "returned"
         /\ IF PromiseAllState(promise') = "rejected"
            THEN /\ dispResult' = [kind |-> "null"]
                 /\ dispError' = settled'[i]
            ELSE LET workerResults == ResolvedValues(promise', settled', 0, EmptyArr)
                 IN  IF AggregateThrows(workerResults)
                     THEN /\ dispResult' = [kind |-> "null"]
                          /\ dispError' = UnmarshalError
                     ELSE /\ dispResult' = [kind |-> "aggregate",
                                            value |-> aggregateWorkerResults(workerResults,
                                                          dispInputs.uiInputs)]
                          /\ UNCHANGED dispError

ClearTimeout(i) ==
    timeout' = [timeout EXCEPT ![i] = IF timeout[i] = "armed" THEN "cleared" ELSE timeout[i]]

\* worker.onmessage
OnMessage(i) ==
    /\ inbox[i].type = "message"
    /\ worker[i] # "terminated"
    /\ ClearTimeout(i)
    /\ IF inbox[i].success
       THEN Settle(i, "resolved", [rawResults |-> inbox[i].rawResults, strategyIndex |-> i])
       ELSE Settle(i, "rejected", StrategyError(i, inbox[i].error))
    /\ worker' = [worker EXCEPT ![i] = "terminated"]
    /\ inbox' = [inbox EXCEPT ![i] = NoEvent]
    /\ Continue(i)
    /\ UNCHANGED <<dispInputs, notDisp>>

\* worker.onerror
OnError(i) ==
    /\ inbox[i].type = "error"
    /\ worker[i] # "terminated"
    /\ ClearTimeout(i)
    /\ Settle(i, "rejected", StrategyError(i, "worker error"))
    /\ worker' = [worker EXCEPT ![i] = "terminated"]
    /\ inbox' = [inbox EXCEPT ![i] = NoEvent]
    /\ Continue(i)
    /\ UNCHANGED <<dispInputs, notDisp>>

\* The callback of setTimeout(..., 600000)
TimeoutFires(i) ==
    /\ timeout[i] = "armed"
    /\ timeout' = [timeout EXCEPT ![i] = "fired"]
    /\ Settle(i, "rejected", StrategyError(i, "worker timeout"))
    /\ Continue(i)
    /\ UNCHANGED <<dispInputs, worker, inbox, notDisp>>

DispatchNext ==
    \/ DispatchRejectsInputs
    \/ DispatchFallsBack
    \/ DispatchSpawns
    \/ \E i \in UnitIndices : WorkerResponds(i)
    \/ \E i \in UnitIndices : WorkerCrashes(i)
    \/ \E i \in UnitIndices : OnMessage(i)
    \/ \E i \in UnitIndices : OnError(i)
    \/ \E i \in UnitIndices : TimeoutFires(i)

SpecDispatch == DispatchInit /\ [][DispatchNext]_vars

\* A unit has failed once its worker has reported a failure or raised an
\* error event, or once its promise has been rejected (a timeout included).
UnitFailed(i) ==
    \/ promise[i] = "rejected"
    \/ inbox[i].type = "error"
    \/ (inbox[i].type = "message" /\ ~inbox[i].success)

DispatchFailed == dispPc = "returned" /\ dispResult = [kind |-> "null"] /\ dispError # NoError

\* The strategy indices the top-level error names.
NamedStrategies ==
    IF "strategyIndex" \in DOMAIN dispError THEN {dispError.strategyIndex} ELSE {}

\* ------------------------------------------------------------------------
\* C7: if the unit of strategy i reports failure, raises an error event or
\* times out (its promise is rejected), the dispatch fails with an error
\* that identifies strategy index i, and no aggregate is returned.
\* ------------------------------------------------------------------------
C7_FailureIdentifiesStrategy ==
    \A i \in DOMAIN promise :
        promise[i] = "rejected" => (DispatchFailed /\ i \in NamedStrategies)

\* ------------------------------------------------------------------------
\* C8: an aggregate is returned only after every spawned unit has reported
\* success, it is built from all of them, and a dispatch that returns with a
\* failed or timed-out unit returns null.
\* ------------------------------------------------------------------------
C8_AggregateOnlyWhenAllSucceeded ==
    /\ (dispPc = "returned" /\ dispResult.kind = "aggregate")
       => /\ \A i \in UnitIndices : promise[i] = "resolved"
          /\ dispResult.value.benchmark # Null
          /\ ArrLen(dispResult.value.strategies) = LeveragedCount
          /\ ArrLen(dispResult.value.schedules) = NUM_UNITS
    /\ (dispPc = "returned" /\ \E i \in DOMAIN promise : promise[i] = "rejected")
       => dispResult = [kind |-> "null"]
    /\ dispPc \in {"start", "waiting"} => dispResult = NoResult

\* Every unit has answered with a success and the aggregate is returned.
C8_Witness ==
    /\ dispPc = "returned"
    /\ dispResult.kind = "aggregate"
    /\ \A i \in UnitIndices : promise[i] = "resolved" /\ worker[i] = "terminated"

\* ------------------------------------------------------------------------
\* C9: when two or more units fail in the same dispatch, the top-level
\* failure names every failed strategy.
\* ------------------------------------------------------------------------
C9_FailureNamesEveryFailedStrategy ==
    DispatchFailed => \A i \in DOMAIN promise : UnitFailed(i) => i \in NamedStrategies

\* ------------------------------------------------------------------------
\* runSimulation, calculateBenchmark and calculateLeveragedStrategy
\* (assembly/index.ts), as far as the indices of outputBuffer go: which
\* indices are written, and how many wealth values each block stores.  The
\* number of survivors of a strategy is any number from 0 to simCount.
\* ------------------------------------------------------------------------

\* new StaticArray<f64>(800000)
OUTPUT_CAPACITY == 800000

MaxStrategies == 3

BaselineCounts == {0, 1, 20000, 799990}

SimulationCounts == {0, 1, 10000, 400000}

SurvivorCounts(simCount) == {0, simCount \div 2, simCount}

\* n writes outputBuffer[outputIdx++] = ...: StaticArray checks every index
\* and the write of the first index that is not below the length traps.
Scalars(idx, n) ==
    IF idx + n <= OUTPUT_CAPACITY
    THEN [trapped |-> FALSE, idx |-> idx + n, last |-> idx + n - 1]
    ELSE [trapped |-> TRUE, idx |-> Max(idx, OUTPUT_CAPACITY), last |-> Max(idx, OUTPUT_CAPACITY)]

\* for (i < count) { if (outputIdx >= 800000) break; outputBuffer[outputIdx++] = results[i]; }
\* the number of values stored.
Stored(idx, count) == Min(count, Max(0, OUTPUT_CAPACITY - idx))

RunInit ==
    /\ GenIdle
    /\ MarshalIdle
    /\ BatIdle
    /\ WkIdle
    /\ AdapterIdle
    /\ LegIdle
    /\ FormIdle
    /\ RecvIdle
    /\ PathIdle
    /\ AggIdle
    /\ DispIdle
    /\ runPc = "start"
    /\ runInputs \in [numStrategies : 0..MaxStrategies,
                      simulationCount : SimulationCounts,
                      baselineSimulationCount : BaselineCounts]
    /\ outputIdx = 0
    /\ outStatus = 0
    /\ outScenarios = 0
    /\ strategyI = 0
    /\ blocks = EmptyArr
    /\ lastWrite = -1
    /\ runReturn = NoResult

\* let outputIdx = 0; the status and the number of scenarios.
RunHeader ==
    /\ runPc = "start"
    /\ outStatus' = 0
    /\ outScenarios' = runInputs.numStrategies + 1
    /\ outputIdx' = 2
    /\ lastWrite' = 1
    /\ runPc' = "benchmark"
    /\ UNCHANGED <<runInputs, strategyI, blocks, runReturn, notRun>>

\* calculateBenchmark: three scalar fields, the reads results[i32(simCount * 0.5)]
\* and results[i32(simCount * 0.9)] (out of range when simCount is 0), five
\* more fields, and the wealth values.
RunBenchmark ==
    /\ runPc = "benchmark"
    /\ LET simCount == runInputs.baselineSimulationCount
           first == Scalars(outputIdx, 3)
           rest == Scalars(first.idx, 5)
           stored == Stored(rest.idx, simCount)
       IN  IF first.trapped \/ simCount = 0 \/ rest.trapped
           THEN /\ runPc' = "trapped"
                /\ lastWrite' = Max(lastWrite, IF first.trapped \/ simCount = 0
                                               THEN first.last ELSE rest.last)
                /\ UNCHANGED <<outputIdx, blocks>>
           ELSE /\ runPc' = "strategies"
                /\ outputIdx' = rest.idx + stored
                /\ lastWrite' = Max(lastWrite, rest.idx + stored - 1)
                /\ blocks' = Push(blocks, [start |-> outputIdx, count |-> simCount,
                                           stored |-> stored])
    /\ UNCHANGED <<runInputs, outStatus, outScenarios, strategyI, runReturn, notRun>>

\* One iteration of the loop of runSimulation: calculateLeveragedStrategy
\* writes eight scalar fields and, with survivors, the wealth values.
RunStrategy ==
    /\ runPc = "strategies"
    /\ strategyI < runInputs.numStrategies
    /\ \E survivors \in SurvivorCounts(runInputs.simulationCount) :
          LET fields == Scalars(outputIdx, 8)
              stored == IF survivors > 0 THEN Stored(fields.idx, survivors) ELSE 0
          IN  IF fields.trapped
              THEN /\ runPc' = "trapped"
                   /\ lastWrite' = Max(lastWrite, fields.last)
                   /\ UNCHANGED <<outputIdx, blocks, strategyI>>
              ELSE /\ outputIdx' = fields.idx + stored
                   /\ lastWrite' = Max(lastWrite, fields.idx + stored - 1)
                   /\ blocks' = Push(blocks, [start |-> outputIdx, count |-> survivors,
                                              stored |-> stored])
                   /\ strategyI' = strategyI + 1
                   /\ UNCHANGED runPc
    /\ UNCHANGED <<runInputs, outStatus, outScenarios, runReturn, notRun>>

\* if (outputIdx > 800000)
BoundsCheck(idx) == idx > OUTPUT_CAPACITY

\* The end of the loop: the bounds check, and the return.
RunReturns ==
    /\ runPc = "strategies"
    /\ strategyI >= runInputs.numStrategies
    /\ IF BoundsCheck(outputIdx)
       THEN /\ outStatus' = 1
            /\ runReturn' = 2
       ELSE /\ runReturn' = outputIdx
            /\ UNCHANGED outStatus
    /\ runPc' = "returned"
    /\ UNCHANGED <<runInputs, outputIdx, outScenarios, strategyI, blocks, lastWrite, notRun>>

RunNext == RunHeader \/ RunBenchmark \/ RunStrategy \/ RunReturns

SpecRun == RunInit /\ [][RunNext]_vars

\* ------------------------------------------------------------------------
\* C1: for every input of runSimulation, no write to outputBuffer targets an
\* index greater than or equal to its capacity: neither a header field, nor
\* a scalar field of a scenario block, nor a wealth value.
\* ------------------------------------------------------------------------
C1_NoWriteBeyondCapacity == lastWrite < OUTPUT_CAPACITY

\* ------------------------------------------------------------------------
\* C2: whenever some scenario block stores fewer wealth values than its
\* count field announces, the status at index 0 is non-zero when
\* runSimulation returns.
\* ------------------------------------------------------------------------
C2_TruncationReported ==
    (runPc = "returned" /\ \E k \in DOMAIN blocks : blocks[k].stored < blocks[k].count)
    => outStatus # 0

\* ------------------------------------------------------------------------
\* The path simulator, for one strategy: calculateLeveragedStrategy
\* (assembly/index.ts, engine "wasm") and the path loop of
\* runSimulationLegacy (scripts/script.js, engine "legacy").
\* ------------------------------------------------------------------------
MaxHorizon == 2

MaxPaths == 2

\* Money is counted in units of 1/Scale, so that halving every month and
\* deflating at the end are exact.
Scale == 2 ^ (MaxHorizon + 1)

Money(x) == x * Scale

\* simulateMonthlyReturn(growth, volatility), Math.exp(...): the return factor
\* of a month is random and positive; here a loss of one half or a gain of 100%.
Returns == {[num |-> 1, den |-> 2], [num |-> 2, den |-> 1]}

Grow(a, ret) == (a * ret.num) \div ret.den

\* Math.pow(1 + inflation, years)
Deflators == {1, 2}

RatioExceedsSwapped(d, a, ltv) ==
    IF d > 0 THEN a * 100 > ltv * d
    ELSE IF d < 0 THEN a * 100 < ltv * d
    ELSE a > 0

\* debt / assets > marginCallLTV in IEEE arithmetic, marginCallLTV given in
\* percent: x / 0 is an infinity of the sign of x, and 0 / 0 compares false.
RatioExceeds(d, a, ltv) ==
    IF a > 0 THEN d * 100 > ltv * a
    ELSE IF a < 0 THEN d * 100 < ltv * a
    ELSE d > 0

Zeros(n) == [i \in 0..(n - 1) |-> 0]

Slice(a, n) == [i \in 0..(n - 1) |-> a[i]]

InsertNumber(a, v) ==
    LET k == Cardinality({i \in DOMAIN a : a[i] <= v})
    IN  [i \in 0..ArrLen(a) |-> IF i < k THEN a[i] ELSE IF i = k THEN v ELSE a[i - 1]]

RECURSIVE SortNumbersFrom(_, _, _)
SortNumbersFrom(a, i, acc) ==
    IF i >= ArrLen(a) THEN acc ELSE SortNumbersFrom(a, i + 1, InsertNumber(acc, a[i]))

\* results.sort() of a StaticArray<f64> and sort((a, b) => a - b): the whole
\* array, in ascending numerical order.
SortNumbers(a) == SortNumbersFrom(a, 0, EmptyArr)

RECURSIVE SumFirst(_, _)
SumFirst(a, n) == IF n = 0 THEN 0 ELSE SumFirst(a, n - 1) + a[n - 1]

IsWasm(args) == args.engine = "wasm"

IsLegacy(args) == args.engine = "legacy"

\* calculateBenchmark of index.ts
IsBenchmark(args) == args.engine = "benchmark"

\* A quotient of the source that need not be an integer, kept as a fraction:
\* 0 / 0 is NaN.
Ratio(n, d) == [num |-> n, den |-> d]

IsNaN(r) == r.den = 0 /\ r.num = 0

\* allSchedules[i + 1] of the strategy.
PathSchedule(args) ==
    generateCashFlowSchedule(args.loanAmount, args.monthlyRate, args.paymentAmount,
                             args.monthlyBudget, args.months)

PathInputs ==
    {args \in [engine : {"wasm", "legacy", "benchmark"},
               loanAmount : {Money(0), Money(2)},
               initialEquity : {Money(2)},
               initialAssets : {Money(2), Money(4)},
               paymentAmount : {Money(0), Money(1), Money(7) \div 2},
               monthlyBudget : {Money(1)},
               monthlyRate : {0, 1},
               marginCallLTV : {50, 75},
               months : 0..MaxHorizon,
               simCount : 0..MaxPaths,
               benchmarkSimulations : 0..(MaxPaths + 1),
               deflator : Deflators] :
        /\ args.initialAssets = args.initialEquity + args.loanAmount
        /\ IF IsLegacy(args)
           THEN /\ args.simCount >= 1
                /\ args.benchmarkSimulations \in {args.simCount, args.simCount + 1}
           ELSE /\ args.benchmarkSimulations = 0
                /\ IsBenchmark(args) => args.paymentAmount = 0 /\ args.monthlyRate = 0
                                         /\ args.marginCallLTV = 75 /\ args.loanAmount = 0}

\* The strategy is entered: results is allocated (index.ts: simCount slots
\* holding zero; script.js: an empty array).
PathInit ==
    /\ GenIdle
    /\ MarshalIdle
    /\ BatIdle
    /\ WkIdle
    /\ AdapterIdle
    /\ LegIdle
    /\ FormIdle
    /\ RecvIdle
    /\ AggIdle
    /\ DispIdle
    /\ RunIdle
    /\ pathPc = "path"
    /\ pathArgs \in PathInputs
    /\ pathS = 0
    /\ pathT = 0
    /\ assets = 0
    /\ debt = 0
    /\ ruined = FALSE
    /\ results = IF IsLegacy(pathArgs) THEN EmptyArr ELSE Zeros(pathArgs.simCount)
    /\ survivorCount = 0
    /\ benchmarkAssets = 0
    /\ benchmarkWealths = EmptyArr
    /\ pathOutcome = NoResult
    /\ paths = EmptyArr

\* for (let s = 0; s < simCount; s++) { let assets = ...; let ruined = false;
StartPath ==
    /\ pathPc = "path"
    /\ pathS < pathArgs.simCount
    /\ assets' = IF IsWasm(pathArgs) THEN pathArgs.initialAssets
                 ELSE IF IsBenchmark(pathArgs) THEN pathArgs.initialEquity
                 ELSE pathArgs.initialEquity + pathArgs.loanAmount
    /\ debt' = IF IsBenchmark(pathArgs) THEN 0 ELSE pathArgs.loanAmount
    /\ benchmarkAssets' = IF IsLegacy(pathArgs) THEN pathArgs.initialEquity ELSE benchmarkAssets
    /\ ruined' = FALSE
    /\ pathT' = 0
    /\ paths' = Push(paths, [simulated |-> 0, breachAt |-> 0, recorded |-> FALSE, wealth |-> 0])
    /\ pathPc' = "month"
    /\ UNCHANGED <<pathArgs, pathS, results, survivorCount, benchmarkWealths, pathOutcome, notPath>>

MonthLoopIgnoresRuin(simulated, months, isRuined) == simulated < months

\* The month loop goes on while months are left and no break was taken.
MonthLoopContinues(simulated, months, isRuined) == simulated < months /\ ~isRuined

\* index.ts: assets and debt after a month with return factor ret.
WasmMonth(a, d, ret, args) ==
    LET surplusAmount == args.monthlyBudget - args.paymentAmount
    IN  [assets |-> Grow(a, ret) + surplusAmount,
         debt |-> d * (1 + args.monthlyRate) - args.paymentAmount]

\* script.js: assets and debt after month t with return factor ret.
LegacyMonth(a, t, ret, args) ==
    [assets |-> Grow(a, ret) + PathSchedule(args).depositPath[t],
     debt |-> PathSchedule(args).debtPath[t]]

\* calculateBenchmark: assets after a month with return factor ret; there
\* is no debt.
BenchmarkMonth(a, ret, args) == [assets |-> Grow(a, ret) + args.monthlyBudget, debt |-> 0]

\* One iteration of the month loop, with the margin-call check.
SimulateMonth ==
    /\ pathPc = "month"
    /\ MonthLoopContinues(pathT, pathArgs.months, ruined)
    /\ \E ret \in Returns :
          LET m == IF IsWasm(pathArgs) THEN WasmMonth(assets, debt, ret, pathArgs)
                   ELSE IF IsBenchmark(pathArgs) THEN BenchmarkMonth(assets, ret, pathArgs)
                   ELSE LegacyMonth(assets, pathT + 1, ret, pathArgs)
              breach == /\ ~IsBenchmark(pathArgs)
                        /\ RatioExceeds(m.debt, m.assets, pathArgs.marginCallLTV)
          IN  /\ assets' = m.assets
              /\ debt' = m.debt
              /\ ruined' = breach
              /\ benchmarkAssets' = IF IsLegacy(pathArgs)
                                    THEN Grow(benchmarkAssets, ret) + pathArgs.monthlyBudget
                                    ELSE benchmarkAssets
              /\ paths' = [paths EXCEPT ![pathS] =
                              [@ EXCEPT !.simulated = @ + 1,
                                        !.breachAt = IF breach /\ @ = 0 THEN pathT + 1 ELSE @]]
    /\ pathT' = pathT + 1
    /\ UNCHANGED <<pathPc, pathArgs, pathS, results, survivorCount, benchmarkWealths, pathOutcome, notPath>>

\* After the month loop: if (!ruined) the real wealth of the path is
\* recorded; script.js also records the benchmark wealth of the path.
EndPath ==
    /\ pathPc = "month"
    /\ ~MonthLoopContinues(pathT, pathArgs.months, ruined)
    /\ LET finalDebt == IF IsLegacy(pathArgs)
                        THEN PathSchedule(pathArgs).debtPath[pathArgs.months]
                        ELSE debt
           nominalWealth == assets - finalDebt
           realWealth == nominalWealth \div pathArgs.deflator
       IN  IF ruined
           THEN UNCHANGED <<results, survivorCount, paths>>
           ELSE /\ results' = IF IsWasm(pathArgs)
                              THEN [results EXCEPT ![survivorCount] = realWealth]
                              ELSE IF IsBenchmark(pathArgs)
                              THEN [results EXCEPT ![pathS] = realWealth]
                              ELSE Push(results, realWealth)
                /\ survivorCount' = IF IsBenchmark(pathArgs) THEN survivorCount
                                    ELSE survivorCount + 1
                /\ paths' = [paths EXCEPT ![pathS] =
                                [@ EXCEPT !.recorded = TRUE, !.wealth = realWealth]]
    /\ benchmarkWealths' = IF IsLegacy(pathArgs) /\ pathS < pathArgs.benchmarkSimulations
                           THEN Push(benchmarkWealths, benchmarkAssets \div pathArgs.deflator)
                           ELSE benchmarkWealths
    /\ pathS' = pathS + 1
    /\ pathPc' = "path"
    /\ UNCHANGED <<pathArgs, pathT, assets, debt, ruined, benchmarkAssets, pathOutcome, notPath>>

RECURSIVE BenchmarkGrowth(_, _, _, _)
BenchmarkGrowth(a, rets, t, args) ==
    IF t > args.months THEN a
    ELSE BenchmarkGrowth(Grow(a, rets[t]) + args.monthlyBudget, rets, t + 1, args)

\* script.js: for (let s = leveragedSimulations; s < benchmarkSimulations; s++),
\* a path of the benchmark alone.
BenchmarkOnlyPath ==
    /\ pathPc = "path"
    /\ IsLegacy(pathArgs)
    /\ pathS >= pathArgs.simCount
    /\ pathS < pathArgs.benchmarkSimulations
    /\ \E rets \in [1..pathArgs.months -> Returns] :
          benchmarkWealths' =
              Push(benchmarkWealths,
                   BenchmarkGrowth(pathArgs.initialEquity, rets, 1, pathArgs) \div pathArgs.deflator)
    /\ pathS' = pathS + 1
    /\ UNCHANGED <<pathPc, pathArgs, pathT, assets, debt, ruined, results, survivorCount, benchmarkAssets, pathOutcome, paths, notPath>>

SurvivalFraction(survivors, simCount) == Ratio(survivors, simCount)

\* (f64(survivorCount) / f64(simCount)) * 100.0, (survivedCount / leveragedSimulations) * 100
SurvivalRate(survivors, simCount) == Ratio(survivors * 100, simCount)

\* index.ts: the block of the strategy, from results and survivorCount.
WasmOutcome(res, n, simCount) ==
    IF n > 0
    THEN LET sorted == SortNumbers(res)
             medianIdx == n \div 2
             p90Idx == (n * 9) \div 10
         IN  [count |-> n,
              wealth |-> Slice(sorted, n),
              survivalRate |-> SurvivalRate(n, simCount),
              median |-> sorted[IF medianIdx < n THEN medianIdx ELSE n - 1],
              p90 |-> sorted[IF p90Idx < n THEN p90Idx ELSE n - 1],
              sum |-> SumFirst(sorted, n),
              expected |-> Ratio(SumFirst(sorted, n), n),
              benchmarkWealths |-> EmptyArr]
    ELSE [count |-> 0, wealth |-> EmptyArr, survivalRate |-> Ratio(0, 1),
          median |-> 0, p90 |-> 0, sum |-> 0, expected |-> Ratio(0, 1),
          benchmarkWealths |-> EmptyArr]

\* index.ts: const median = results[i32(simCount * 0.5)] reads outside the
\* array when simCount is 0, and the module traps.
BenchmarkTraps(simCount) == simCount \div 2 >= simCount

\* index.ts: the block of the benchmark, from results (every path is in it).
BenchmarkOutcome(res, simCount) ==
    LET sorted == SortNumbers(res)
    IN  [count |-> simCount,
         wealth |-> sorted,
         survivalRate |-> Ratio(100, 1),
         median |-> sorted[simCount \div 2],
         p90 |-> sorted[(simCount * 9) \div 10],
         sum |-> SumFirst(sorted, simCount),
         expected |-> Ratio(SumFirst(sorted, simCount), simCount),
         benchmarkWealths |-> EmptyArr]

LegacyOutcomeUnguardedMean(finalWealths, survivedCount, leveragedSimulations, benchWealths) ==
    LET sorted == SortNumbers(finalWealths)
        len == ArrLen(sorted)
    IN  [count |-> survivedCount,
         wealth |-> sorted,
         survivalRate |-> SurvivalRate(survivedCount, leveragedSimulations),
         expected |-> Ratio(SumFirst(sorted, len), len),
         median |-> IF len > 0 THEN sorted[(len * 50) \div 100] ELSE 0,
         p90 |-> IF len > 0 THEN sorted[(len * 90) \div 100] ELSE 0,
         sum |-> SumFirst(sorted, len),
         benchmarkWealths |-> SortNumbers(benchWealths)]

\* script.js: the entry pushed on results, from finalWealths and survivedCount.
LegacyOutcome(finalWealths, survivedCount, leveragedSimulations, benchWealths) ==
    LET sorted == SortNumbers(finalWealths)
        len == ArrLen(sorted)
    IN  [count |-> survivedCount,
         wealth |-> sorted,
         survivalRate |-> SurvivalRate(survivedCount, leveragedSimulations),
         expected |-> IF len > 0 THEN Ratio(SumFirst(sorted, len), len) ELSE Ratio(0, 1),
         median |-> IF len > 0 THEN sorted[(len * 50) \div 100] ELSE 0,
         p90 |-> IF len > 0 THEN sorted[(len * 90) \div 100] ELSE 0,
         sum |-> SumFirst(sorted, len),
         benchmarkWealths |-> SortNumbers(benchWealths)]

\* After the last path: the sort, the statistics and the reported outcome.
Statistics ==
    /\ pathPc = "path"
    /\ pathS >= pathArgs.simCount
    /\ IsLegacy(pathArgs) => pathS >= pathArgs.benchmarkSimulations
    /\ IF IsBenchmark(pathArgs) /\ BenchmarkTraps(pathArgs.simCount)
       THEN /\ pathPc' = "trapped"
            /\ UNCHANGED pathOutcome
       ELSE /\ pathPc' = "done"
            /\ pathOutcome' =
                  IF IsWasm(pathArgs)
                  THEN WasmOutcome(results, survivorCount, pathArgs.simCount)
                  ELSE IF IsBenchmark(pathArgs)
                  THEN BenchmarkOutcome(results, pathArgs.simCount)
                  ELSE LegacyOutcome(results, survivorCount, pathArgs.simCount,
                                     benchmarkWealths)
    /\ UNCHANGED <<pathArgs, pathS, pathT, assets, debt, ruined, results, survivorCount, benchmarkAssets, benchmarkWealths, paths, notPath>>

PathNext == StartPath \/ SimulateMonth \/ EndPath \/ BenchmarkOnlyPath \/ Statistics

SpecPaths == PathInit /\ [][PathNext]_vars

Survivors == {p \in DOMAIN paths : paths[p].recorded}

RECURSIVE SurvivorWealthsFrom(_, _)
SurvivorWealthsFrom(p, acc) ==
    IF p >= ArrLen(paths) THEN acc
    ELSE SurvivorWealthsFrom(p + 1, IF paths[p].recorded THEN Push(acc, paths[p].wealth) ELSE acc)

\* The terminal real wealth recorded by the surviving paths, in path order.
SurvivorWealths == SurvivorWealthsFrom(0, EmptyArr)

\* ------------------------------------------------------------------------
\* C4: the wealth sequence a strategy reports is the terminal real wealth of
\* its surviving paths, one entry per survivor and no other value, in
\* ascending order, and its length is the survivor count.
\* ------------------------------------------------------------------------
C4_WealthIsSortedSurvivorValues ==
    pathPc = "done" =>
        /\ pathOutcome.wealth = SortNumbers(SurvivorWealths)
        /\ ArrLen(pathOutcome.wealth) = Cardinality(Survivors)

\* ------------------------------------------------------------------------
\* C5: ruin is terminal.  A path that breached the margin-call threshold at
\* month m has had exactly m months simulated, it never records a wealth
\* value and it is never counted as a survivor: the survivor count and the
\* length of the reported wealth sequence count the paths without a breach.
\* ------------------------------------------------------------------------
Breached == {p \in DOMAIN paths : paths[p].breachAt # 0}

C5_RuinIsTerminal ==
    /\ \A p \in Breached : paths[p].simulated = paths[p].breachAt /\ ~paths[p].recorded
    /\ ~IsBenchmark(pathArgs) => survivorCount = Cardinality(Survivors)
    /\ pathPc = "done" =>
          /\ pathOutcome.count = ArrLen(paths) - Cardinality(Breached)
          /\ ArrLen(pathOutcome.wealth) = ArrLen(paths) - Cardinality(Breached)

\* A strategy has finished in which one path breached the margin-call
\* threshold before its last month and another path survived.
C5_Witness ==
    /\ pathPc = "done"
    /\ \E p \in Breached : paths[p].breachAt < pathArgs.months
    /\ Survivors # {}

\* ------------------------------------------------------------------------
\* C11: in every aggregate the dispatch returns, every leveraged outcome
\* carries benchmarkWealthArray (the benchmark's finalWealthArray),
\* benchmarkMedian and benchmarkExpected, whatever the benchmark's expected
\* wealth is.
\* ------------------------------------------------------------------------
CarriesBenchmark(strategy, benchmark) ==
    /\ {"benchmarkWealthArray", "benchmarkMedian", "benchmarkExpected"} \subseteq DOMAIN strategy
    /\ strategy.benchmarkWealthArray = benchmark.finalWealthArray
    /\ strategy.benchmarkMedian = benchmark.medianWealth
    /\ strategy.benchmarkExpected = benchmark.expectedWealth

C11_OutcomesCarryBenchmark ==
    (dispPc = "returned" /\ dispResult.kind = "aggregate")
    => \A k \in DOMAIN dispResult.value.strategies :
          CarriesBenchmark(dispResult.value.strategies[k], dispResult.value.benchmark)

\* ------------------------------------------------------------------------
\* The receivers of an output buffer: the single-strategy worker and
\* SimulationAdapter.unmarshallResults with readScenario (scripts/adapter.js),
\* the batch worker, and unmarshalStrategyResults (scripts/integration.js).
\* ------------------------------------------------------------------------

\* index.ts: the block of a scenario, eight scalar fields and the wealth values.
ScenarioBlock(paymentAmount, surplusAmount, survivalRate, median, p90, expected, wealth) ==
    Concat(Arr(<<paymentAmount, surplusAmount, survivalRate, median, p90, expected, 0,
                 ArrLen(wealth)>>),
           wealth)

RECURSIVE ConcatAll(_, _, _)
ConcatAll(arrays, i, acc) ==
    IF i >= ArrLen(arrays) THEN acc ELSE ConcatAll(arrays, i + 1, Concat(acc, arrays[i]))

\* index.ts: the whole output, the header and the blocks of the benchmark
\* and of the strategies.
BatchBuffer(status, benchmarkBlock, strategyBlocks) ==
    ConcatAll(strategyBlocks, 0,
              Concat(Arr(<<status, ArrLen(strategyBlocks) + 1>>), benchmarkBlock))

\* Status values an output buffer can hold.
Statuses == {0, 1, 2, -1}

\* Blocks the simulator can leave for the benchmark (every path survives).
BenchmarkBlocks == {ScenarioBlock(0, 3, 100, b, b, b, Arr(<<b>>)) : b \in {0, 2, 4}}

\* Blocks the simulator can leave for a leveraged strategy.
StrategyBlocks ==
    {ScenarioBlock(1, 2, 0, 0, 0, 0, EmptyArr),
     ScenarioBlock(1, 2, 50, 1, 1, 1, Arr(<<1>>)),
     ScenarioBlock(1, 2, 100, 5, 5, 3, Arr(<<1, 5>>))}

MaxBatchStrategies == 2

BatchBuffers(n) ==
    {BatchBuffer(st, b, sb) : st \in Statuses, b \in BenchmarkBlocks,
                              sb \in [0..(n - 1) -> StrategyBlocks]}

\* runSimulation returned 2 after writing the error status.
ErrorHeader(n) == Arr(<<1, n + 1>>)

WithStatus(rawBuffer, status) == [rawBuffer EXCEPT ![0] = status]

StrategyBuffers == {WithStatus(b, st) : b \in GoodBuffers, st \in Statuses}

\* SimulationAdapter.readScenario(buffer, startPos)
readScenario(buffer, startPos) ==
    LET arrayLength == buffer[startPos + 7]
    IN  [data |-> [paymentAmount |-> buffer[startPos],
                   surplusAmount |-> buffer[startPos + 1],
                   survivalRate |-> buffer[startPos + 2],
                   medianWealth |-> buffer[startPos + 3],
                   p90Wealth |-> buffer[startPos + 4],
                   expectedWealth |-> buffer[startPos + 5],
                   benchmarkPercentDiff |-> buffer[startPos + 6],
                   finalWealthArray |-> [i \in 0..(arrayLength - 1) |-> buffer[startPos + 8 + i]],
                   benchmarkWealthArray |-> EmptyArr,
                   benchmarkMedian |-> 0,
                   benchmarkExpected |-> 0],
         nextPos |-> startPos + 8 + arrayLength]

\* Default of uiInputs.numStrategies: UI_CONSTANTS.NUM_STRATEGIES - 1
NUM_STRATEGIES == 21

NumLeveragedStrategies(numStrategies) ==
    IF numStrategies # 0 THEN numStrategies ELSE NUM_STRATEGIES - 1

\* The body of the loop of unmarshallResults: the strategy read at pos,
\* with its percent difference and its links to the benchmark.
AdapterStrategy(rawBuffer, pos, benchmark) ==
    LET strategy == readScenario(rawBuffer, pos).data
    IN  [strategy EXCEPT
            !.benchmarkPercentDiff =
                IF benchmark.expectedWealth > 0
                THEN PercentDiff(strategy.expectedWealth, benchmark.expectedWealth)
                ELSE @,
            !.benchmarkWealthArray = benchmark.finalWealthArray,
            !.benchmarkMedian = benchmark.medianWealth,
            !.benchmarkExpected = benchmark.expectedWealth]

RECURSIVE AdapterStrategies(_, _, _, _, _, _)
AdapterStrategies(rawBuffer, pos, i, n, benchmark, acc) ==
    IF i >= n THEN acc
    ELSE AdapterStrategies(rawBuffer, readScenario(rawBuffer, pos).nextPos, i + 1, n, benchmark,
                           Push(acc, AdapterStrategy(rawBuffer, pos, benchmark)))

\* if (rawBuffer.length < 2) throw ...; if (status !== 0) throw ...
AdapterUnmarshallThrows(rawBuffer) == ArrLen(rawBuffer) < 2 \/ rawBuffer[0] # 0

\* SimulationAdapter.unmarshallResults(rawBuffer, uiInputs), when it does not
\* throw (amortizedPayment, paymentPercent and loanDetails, which only the
\* presentation reads, are left out).
unmarshallResults(rawBuffer, numStrategies) ==
    LET benchmark == readScenario(rawBuffer, 2)
    IN  [strategies |-> AdapterStrategies(rawBuffer, benchmark.nextPos, 0,
                                          NumLeveragedStrategies(numStrategies),
                                          benchmark.data, EmptyArr),
         benchmark |-> benchmark.data]

\* const status = rawResults[0]; if (status !== 0) throw ...: an empty
\* buffer has no status, and undefined !== 0.
WorkerStatusFails(rawResults) == ArrLen(rawResults) = 0 \/ rawResults[0] # 0

\* The message the single-strategy worker posts for the buffer it copied.
WorkerMessage(rawResults) ==
    IF WorkerStatusFails(rawResults)
    THEN [success |-> FALSE, error |-> "WASM simulation failed with status"]
    ELSE [success |-> TRUE, rawResults |-> rawResults]

\* The batch worker: const status = outputView[0]; if (status !== 0) throw ...
BatchWorkerStatusFails(outputView) == ArrLen(outputView) = 0 \/ outputView[0] # 0

BatchWorkerMessage(outputView) ==
    IF BatchWorkerStatusFails(outputView)
    THEN [success |-> FALSE, error |-> "Simulation failed with status"]
    ELSE [success |-> TRUE, rawBuffer |-> outputView]

ReceiveInputs ==
    {[receiver |-> r, rawBuffer |-> b, numStrategies |-> 0] :
        r \in {"worker", "unmarshalStrategyResults"}, b \in StrategyBuffers}
    \cup {[receiver |-> "worker", rawBuffer |-> EmptyArr, numStrategies |-> 0]}
    \cup UNION {{[receiver |-> r, rawBuffer |-> b, numStrategies |-> n] :
                    r \in {"batchWorker", "unmarshallResults"},
                    b \in BatchBuffers(n) \cup {ErrorHeader(n)}} : n \in 1..MaxBatchStrategies}

ReceiveInit ==
    /\ GenIdle
    /\ MarshalIdle
    /\ BatIdle
    /\ WkIdle
    /\ AdapterIdle
    /\ LegIdle
    /\ FormIdle
    /\ AggIdle
    /\ DispIdle
    /\ RunIdle
    /\ PathIdle
    /\ recvPc = "called"
    /\ recvArgs \in ReceiveInputs
    /\ recvResult = NoResult

\* adapter.js, self.onmessage from the copy of the output buffer on.
WorkerReceives ==
    /\ recvPc = "called"
    /\ recvArgs.receiver = "worker"
    /\ recvResult' = WorkerMessage(recvArgs.rawBuffer)
    /\ recvPc' = IF WorkerStatusFails(recvArgs.rawBuffer) THEN "failed" ELSE "returned"
    /\ UNCHANGED <<recvArgs, notRecv>>

\* The batch worker's self.onmessage from the read of the status on.
BatchWorkerReceives ==
    /\ recvPc = "called"
    /\ recvArgs.receiver = "batchWorker"
    /\ recvResult' = BatchWorkerMessage(recvArgs.rawBuffer)
    /\ recvPc' = IF BatchWorkerStatusFails(recvArgs.rawBuffer) THEN "failed" ELSE "returned"
    /\ UNCHANGED <<recvArgs, notRecv>>

AdapterUnmarshalls ==
    /\ recvPc = "called"
    /\ recvArgs.receiver = "unmarshallResults"
    /\ IF AdapterUnmarshallThrows(recvArgs.rawBuffer)
       THEN /\ recvPc' = "failed"
            /\ UNCHANGED recvResult
       ELSE /\ recvPc' = "returned"
            /\ recvResult' = unmarshallResults(recvArgs.rawBuffer, recvArgs.numStrategies)
    /\ UNCHANGED <<recvArgs, notRecv>>

StrategyUnmarshals ==
    /\ recvPc = "called"
    /\ recvArgs.receiver = "unmarshalStrategyResults"
    /\ IF UnmarshalThrows(recvArgs.rawBuffer)
       THEN /\ recvPc' = "failed"
            /\ UNCHANGED recvResult
       ELSE /\ recvPc' = "returned"
            /\ recvResult' = unmarshalStrategyResults(recvArgs.rawBuffer)
    /\ UNCHANGED <<recvArgs, notRecv>>

ReceiveNext == WorkerReceives \/ BatchWorkerReceives \/ AdapterUnmarshalls \/ StrategyUnmarshals

SpecReceive == ReceiveInit /\ [][ReceiveNext]_vars

\* ------------------------------------------------------------------------
\* C12: when the status at index 0 of the buffer is not 0, the receiver (a
\* worker, unmarshallResults or unmarshalStrategyResults) ends in a failure
\* and produces no outcome object: a worker posts success false without the
\* buffer, and the unmarshalling functions throw without a return value.
\* ------------------------------------------------------------------------
HasFailureStatus(rawBuffer) == ArrLen(rawBuffer) > 0 /\ rawBuffer[0] # 0

IsWorker(receiver) == receiver \in {"worker", "batchWorker"}

C12_NonZeroStatusFails ==
    (recvPc \in {"returned", "failed"} /\ HasFailureStatus(recvArgs.rawBuffer))
    => /\ recvPc = "failed"
       /\ IF IsWorker(recvArgs.receiver)
          THEN ~recvResult.success /\ DOMAIN recvResult = {"success", "error"}
          ELSE recvResult = NoResult

\* unmarshalStrategyResults has been given a buffer with status 2 whose
\* remainder is a complete output with one survivor, and has thrown.
C12_Witness ==
    /\ recvPc = "failed"
    /\ recvArgs.receiver = "unmarshalStrategyResults"
    /\ recvArgs.rawBuffer[0] = 2
    /\ recvArgs.rawBuffer[8] = 1

\* readScenario(buffer, startPos) with the count field arrayLength: the
\* indices of the wealth values it reads, and its nextPos.
ReadScenarioExtent(startPos, arrayLength) ==
    [firstWealth |-> startPos + 8,
     lastWealth |-> startPos + 8 + arrayLength - 1,
     nextPos |-> startPos + 8 + arrayLength]

\* ------------------------------------------------------------------------
\* C13: for every scenario block runSimulation has written, readScenario
\* started at the first index of the block reads as wealth values exactly
\* the indices the simulator stored the wealth values of the block at (the
\* scalar fields are read at the offsets they were written at), and its
\* nextPos is the first index of the following block (the end of the output
\* for the last block).
\* ------------------------------------------------------------------------
C13_ReadScenarioRoundTrip ==
    runPc = "returned"
    => \A k \in DOMAIN blocks :
          LET read == ReadScenarioExtent(blocks[k].start, blocks[k].count)
          IN  /\ read.lastWealth = blocks[k].start + 8 + blocks[k].stored - 1
              /\ read.nextPos = IF k + 1 \in DOMAIN blocks THEN blocks[k + 1].start ELSE outputIdx

\* ------------------------------------------------------------------------
\* The input buffer: the single-strategy worker's marshalInputs
\* (scripts/adapter.js), the batch worker's writes, and the reads of
\* runSimulation (assembly/index.ts).
\* ------------------------------------------------------------------------

\* new StaticArray<f64>(15)
INPUT_SLOTS == 15

\* The requests runSimulationWithAdapter builds for a strategy.
StrategyRequests ==
    [kind : {"strategy"},
     initialDebt : {0, 2},
     initialBalance : {3, 5},
     monthlyPayment : {0, 1},
     monthlyBudget : {1, 4},
     monthlyRate : {0, 1},
     years : {1, 2},
     volatility : {20},
     growth : {7},
     inflation : {3},
     marginCallLTV : {75},
     simulationCount : {1, 10}]

\* The requests SimulationAdapter.marshallInputs builds for the batch worker.
BatchRequests ==
    [kind : {"batch"},
     loanAmount : {2},
     interestRate : {12},
     volatility : {20},
     growth : {7},
     inflation : {3},
     monthlyBudget : {4},
     minPayment : {1},
     maxPayment : {4},
     simulationCount : {10},
     years : {1},
     marginCallLTV : {75},
     initialAssets : {5},
     initialEquity : {3},
     numStrategies : {0, 2},
     baselineSimulationCount : {0, 20}]

RECURSIVE WriteSlots(_, _, _)
WriteSlots(buffer, values, k) ==
    IF k >= ArrLen(values) THEN buffer
    ELSE WriteSlots([buffer EXCEPT ![k] = values[k]], values, k + 1)

\* marshalInputs(inputs): inputView[0] = inputs.initialDebt; ... inputView[10] = ...
StrategySlots(inputs) ==
    Arr(<<inputs.initialDebt, inputs.initialBalance, inputs.monthlyPayment,
          inputs.monthlyBudget, inputs.monthlyRate, inputs.years, inputs.volatility,
          inputs.growth, inputs.inflation, inputs.marginCallLTV, inputs.simulationCount>>)

\* a || b of JavaScript, on numbers
OrDefault(a, b) == IF a # 0 THEN a ELSE b

\* The batch worker: inputView[0] = inputs.loanAmount; ... inputView[14] = ...
BatchSlots(inputs) ==
    Arr(<<inputs.loanAmount, inputs.interestRate, inputs.volatility, inputs.growth,
          inputs.inflation, inputs.monthlyBudget, inputs.minPayment, inputs.maxPayment,
          inputs.simulationCount, inputs.years, inputs.marginCallLTV, inputs.initialAssets,
          inputs.initialEquity, OrDefault(inputs.numStrategies, 10),
          OrDefault(inputs.baselineSimulationCount, 100000)>>)

\* runSimulation, "1. READ INPUTS FROM BUFFER"
ReadInputs(buffer) ==
    [loanAmount |-> buffer[0],
     interestRate |-> buffer[1],
     volatility |-> buffer[2],
     growth |-> buffer[3],
     inflation |-> buffer[4],
     monthlyBudget |-> buffer[5],
     minPayment |-> buffer[6],
     maxPayment |-> buffer[7],
     simulationCount |-> buffer[8],
     years |-> buffer[9],
     marginCallLTV |-> buffer[10],
     initialAssets |-> buffer[11],
     initialEquity |-> buffer[12],
     numStrategies |-> buffer[13],
     baselineSimulationCount |-> buffer[14]]

MarshalInit ==
    /\ GenIdle
    /\ AggIdle
    /\ DispIdle
    /\ RunIdle
    /\ PathIdle
    /\ RecvIdle
    /\ FormIdle
    /\ LegIdle
    /\ AdapterIdle
    /\ WkIdle
    /\ BatIdle
    /\ marshalPc = "request"
    /\ request \in StrategyRequests \cup BatchRequests
    /\ inputBuffer = Zeros(INPUT_SLOTS)
    /\ simInputs = NoResult

StrategyWorkerMarshals ==
    /\ marshalPc = "request"
    /\ request.kind = "strategy"
    /\ inputBuffer' = WriteSlots(inputBuffer, StrategySlots(request), 0)
    /\ marshalPc' = "marshalled"
    /\ UNCHANGED <<request, simInputs, notMarshal>>

BatchWorkerMarshals ==
    /\ marshalPc = "request"
    /\ request.kind = "batch"
    /\ inputBuffer' = WriteSlots(inputBuffer, BatchSlots(request), 0)
    /\ marshalPc' = "marshalled"
    /\ UNCHANGED <<request, simInputs, notMarshal>>

\* wasmInstance.exports.runSimulation(): the simulator reads its inputs.
SimulatorReadsInputs ==
    /\ marshalPc = "marshalled"
    /\ simInputs' = ReadInputs(inputBuffer)
    /\ marshalPc' = "read"
    /\ UNCHANGED <<request, inputBuffer, notMarshal>>

MarshalNext == StrategyWorkerMarshals \/ BatchWorkerMarshals \/ SimulatorReadsInputs

SpecMarshal == MarshalInit /\ [][MarshalNext]_vars

\* ------------------------------------------------------------------------
\* C14: for every strategy request, the simulator reads from the input
\* buffer the fields the worker's marshalInputs wrote: its initial debt,
\* its initial balance, its monthly budget, its rate (the simulator's
\* annual rate is twelve times the monthly rate), its horizon, volatility,
\* growth, inflation, margin-call LTV and path count are those of the
\* request.
\* ------------------------------------------------------------------------
C14_SimulatorReadsRequestFields ==
    (marshalPc = "read" /\ request.kind = "strategy")
    => /\ simInputs.loanAmount = request.initialDebt
       /\ simInputs.initialAssets = request.initialBalance
       /\ simInputs.monthlyBudget = request.monthlyBudget
       /\ simInputs.interestRate = 12 * request.monthlyRate
       /\ simInputs.years = request.years
       /\ simInputs.volatility = request.volatility
       /\ simInputs.growth = request.growth
       /\ simInputs.inflation = request.inflation
       /\ simInputs.marginCallLTV = request.marginCallLTV
       /\ simInputs.simulationCount = request.simulationCount

\* ------------------------------------------------------------------------
\* C15: the survival rate a strategy reports is a number from 0 to 100 and
\* equals survivorCount / pathCount * 100, where the survivors are the paths
\* that completed every month without a breach, at most pathCount of them.
\* ------------------------------------------------------------------------
C15_SurvivalRate ==
    pathPc = "done"
    => LET rate == pathOutcome.survivalRate
           n == Cardinality(Survivors)
       IN  /\ \A p \in Survivors : paths[p].simulated = pathArgs.months /\ paths[p].breachAt = 0
           /\ n <= pathArgs.simCount
           /\ rate.den > 0
           /\ 0 <= rate.num /\ rate.num <= 100 * rate.den
           /\ rate.num * pathArgs.simCount = n * 100 * rate.den

\* A leveraged strategy has finished with some, but not all, of its paths
\* surviving.
C15_Witness ==
    /\ pathPc = "done"
    /\ ~IsBenchmark(pathArgs)
    /\ Survivors # {}
    /\ Breached # {}

\* ------------------------------------------------------------------------
\* C16: for every outcome with at least one survivor, the median is the
\* value at index floor(count * 0.5) and p90 the value at index
\* floor(count * 0.9) of the ascending sequence of the survivors' wealth,
\* both indices are within 0..count-1, and median <= p90.
\* ------------------------------------------------------------------------
C16_PercentilesOfSurvivorWealth ==
    (pathPc = "done" /\ Survivors # {})
    => LET ascending == SortNumbers(SurvivorWealths)
           count == ArrLen(ascending)
           medianIdx == count \div 2
           p90Idx == (count * 9) \div 10
       IN  /\ medianIdx \in 0..(count - 1)
           /\ p90Idx \in 0..(count - 1)
           /\ pathOutcome.median = ascending[medianIdx]
           /\ pathOutcome.p90 = ascending[p90Idx]
           /\ pathOutcome.median <= pathOutcome.p90

\* ------------------------------------------------------------------------
\* C17: a strategy with pathCount > 0 none of whose paths survived finishes
\* without an error, and its outcome has survival rate 0, median 0, p90 0,
\* expected wealth 0 and an empty wealth sequence (count 0).
\* ------------------------------------------------------------------------
NoSurvivorFinished ==
    /\ pathPc \in {"done", "trapped"}
    /\ pathArgs.simCount > 0
    /\ Survivors = {}

C17_NoSurvivorsIsValidOutcome ==
    NoSurvivorFinished
    => /\ pathPc = "done"
       /\ pathOutcome.survivalRate.num = 0 /\ pathOutcome.survivalRate.den > 0
       /\ pathOutcome.median = 0
       /\ pathOutcome.p90 = 0
       /\ pathOutcome.expected.num = 0 /\ pathOutcome.expected.den > 0
       /\ pathOutcome.wealth = EmptyArr
       /\ pathOutcome.count = 0

\* A strategy has finished all of whose paths, two or more, breached the
\* margin-call threshold.
C17_Witness ==
    /\ NoSurvivorFinished
    /\ Cardinality(Breached) >= 2
    /\ Cardinality(Breached) = pathArgs.simCount

\* ------------------------------------------------------------------------
\* C18: with pathCount = 0 the path simulator returns a defined empty
\* outcome, for the benchmark as well as for a leveraged strategy: no
\* out-of-range array access, a survival rate of exactly 0 (not 0 / 0), all
\* statistics 0 and an empty wealth sequence.
\* ------------------------------------------------------------------------
C18_ZeroPathsEmptyOutcome ==
    (pathPc \in {"done", "trapped"} /\ pathArgs.simCount = 0)
    => /\ pathPc = "done"
       /\ ~IsNaN(pathOutcome.survivalRate)
       /\ pathOutcome.survivalRate.num = 0 /\ pathOutcome.survivalRate.den > 0
       /\ pathOutcome.median = 0
       /\ pathOutcome.p90 = 0
       /\ pathOutcome.expected.num = 0 /\ pathOutcome.expected.den > 0
       /\ pathOutcome.wealth = EmptyArr
       /\ pathOutcome.count = 0

\* ------------------------------------------------------------------------
\* C19: in the schedule returned by generateCashFlowSchedule, for every
\* month t in 1..months, with interest = debtPath[t-1] * monthlyRate:
\*   - debt positive and t the payoff month (t = months, or payment -
\*     interest >= debt): depositPath[t] = budget - (debt + interest) and
\*     debtPath[t] = 0;
\*   - debt positive and t not the payoff month: depositPath[t] = budget -
\*     payment and debtPath[t] = debtPath[t-1] - (payment - interest);
\*   - debt zero: depositPath[t] = budget and debtPath[t] = 0,
\* so once debtPath is zero it is zero in every later month.
\* ------------------------------------------------------------------------
InterestOf(t) == genResult.debtPath[t - 1] * genArgs.monthlyRate

IsPayoffMonth(t) ==
    /\ genResult.debtPath[t - 1] > 0
    /\ t = genArgs.months \/ genArgs.payment - InterestOf(t) >= genResult.debtPath[t - 1]

IsNormalMonth(t) == genResult.debtPath[t - 1] > 0 /\ ~IsPayoffMonth(t)

IsDebtFreeMonth(t) == genResult.debtPath[t - 1] = 0

C19_ScheduleMonthCases ==
    genPc = "returned"
    => /\ DOMAIN genResult.depositPath = 0..genArgs.months
       /\ DOMAIN genResult.debtPath = 0..genArgs.months
       /\ \A t \in 1..genArgs.months :
             LET before == genResult.debtPath[t - 1]
             IN  /\ IsPayoffMonth(t) =>
                       /\ genResult.depositPath[t] = genArgs.monthlyBudget - (before + InterestOf(t))
                       /\ genResult.debtPath[t] = 0
                 /\ IsNormalMonth(t) =>
                       /\ genResult.depositPath[t] = genArgs.monthlyBudget - genArgs.payment
                       /\ genResult.debtPath[t] = before - (genArgs.payment - InterestOf(t))
                 /\ IsDebtFreeMonth(t) =>
                       /\ genResult.depositPath[t] = genArgs.monthlyBudget
                       /\ genResult.debtPath[t] = 0
       /\ \A t \in 1..genArgs.months :
             genResult.debtPath[t - 1] = 0 => \A u \in t..genArgs.months : genResult.debtPath[u] = 0

\* A returned schedule with a normal month, then an early payoff month
\* whose deposit is below the budget, then a month without debt.
C19_Witness ==
    /\ genPc = "returned"
    /\ \E t \in 1..genArgs.months : IsNormalMonth(t)
    /\ \E t \in 1..(genArgs.months - 1) :
          /\ IsPayoffMonth(t)
          /\ genResult.depositPath[t] < genArgs.monthlyBudget
          /\ IsDebtFreeMonth(t + 1)

\* ------------------------------------------------------------------------
\* C20: each simulated path of a strategy starts with a balance equal to
\* depositPath[0] of the strategy's schedule, and depositPath[0] is the
\* strategy's initial capital injection (its initial balance).
\* ------------------------------------------------------------------------
PathJustStarted ==
    /\ IsLegacy(pathArgs)
    /\ pathPc = "month"
    /\ pathT = 0

C20_PathStartsAtFirstDeposit ==
    PathJustStarted
    => /\ assets = PathSchedule(pathArgs).depositPath[0]
       /\ PathSchedule(pathArgs).depositPath[0] = pathArgs.initialEquity + pathArgs.loanAmount

\* ------------------------------------------------------------------------
\* validateInputs and the entry points that call it: runSimulation,
\* runSimulationLegacy (scripts/script.js) and runSimulationWithAdapter
\* (scripts/integration.js)
\* ------------------------------------------------------------------------
MaxField == 1

\* parseFloat(element.value): a number, or NaN.
NaN == [nan |-> TRUE, val |-> 0]

Num(x) == [nan |-> FALSE, val |-> x]

FieldValues == {NaN} \cup {Num(x) : x \in (-1)..MaxField}

\* const inputs = ['loanAmount', 'loanPeriod', ...] of validateInputs.
ValidatedIds == <<"loanAmount", "loanPeriod", "assetValue", "minPayment", "monthlyBudget", "interestRate", "growth", "vol", "marginCall", "inflationRate">>

\* setMode: the inputs that are disabled in the standard mode.
DisabledIn(mode) == IF mode = "standard" THEN {"growth", "vol", "marginCall"} ELSE {}

\* The page and the function that is called: loanAmount, loanPeriod,
\* monthlyBudget and growth hold any value; the other inputs hold a valid
\* number.
Forms ==
    {[value |-> [k \in DOMAIN ValidatedIds |->
                    IF ValidatedIds[k] = "loanAmount" THEN loan
                    ELSE IF ValidatedIds[k] = "loanPeriod" THEN period
                    ELSE IF ValidatedIds[k] = "monthlyBudget" THEN budget
                    ELSE IF ValidatedIds[k] = "growth" THEN g
                    ELSE Num(1)],
      disabled |-> DisabledIn(mode),
      wasmAvailable |-> wasm,
      entry |-> entry] :
        loan \in FieldValues, period \in FieldValues, budget \in FieldValues,
        g \in FieldValues, mode \in {"standard", "custom"}, wasm \in BOOLEAN,
        entry \in {"runSimulation", "runSimulationWithAdapter", "runSimulationLegacy"}}

\* document.getElementById(id).value, parsed.
FieldOf(f, id) == f.value[CHOOSE k \in DOMAIN ValidatedIds : ValidatedIds[k] = id]

\* validateInputs: false at the first enabled input that is NaN or below 0.
validateInputs(f) ==
    \A k \in DOMAIN ValidatedIds :
        ValidatedIds[k] \notin f.disabled => ~(f.value[k].nan \/ f.value[k].val < 0)

\* getSimulationInputs and the head of runSimulationLegacy: months and the
\* monthly budget the schedules and the paths are computed from.
StartedWith(engine, f) ==
    [engine |-> engine,
     months |-> FieldOf(f, "loanPeriod").val * 12,
     monthlyBudget |-> FieldOf(f, "monthlyBudget").val]

FormInit ==
    /\ GenIdle
    /\ AggIdle
    /\ DispIdle
    /\ RunIdle
    /\ PathIdle
    /\ RecvIdle
    /\ MarshalIdle
    /\ BatIdle
    /\ WkIdle
    /\ AdapterIdle
    /\ LegIdle
    /\ formPc = "submitted"
    /\ form \in Forms
    /\ started = NoResult

\* runSimulationWithAdapter up to the creation of the strategy requests,
\* or its fallback runSimulationJS -> runSimulationLegacy.
AdapterStarts ==
    IF ~validateInputs(form)
    THEN formPc' = "rejected" /\ UNCHANGED started
    ELSE /\ formPc' = "started"
         /\ started' = StartedWith(IF form.wasmAvailable THEN "workers" ELSE "legacy", form)

\* runSimulation of script.js: validates, then calls runSimulationWithAdapter.
RunSimulationEntry ==
    /\ formPc = "submitted"
    /\ form.entry = "runSimulation"
    /\ IF ~validateInputs(form)
       THEN formPc' = "rejected" /\ UNCHANGED started
       ELSE AdapterStarts
    /\ UNCHANGED <<form, notForm>>

\* window.runSimulationWithAdapter called on its own.
RunSimulationWithAdapterEntry ==
    /\ formPc = "submitted"
    /\ form.entry = "runSimulationWithAdapter"
    /\ AdapterStarts
    /\ UNCHANGED <<form, notForm>>

\* runSimulationLegacy called on its own.
RunSimulationLegacyEntry ==
    /\ formPc = "submitted"
    /\ form.entry = "runSimulationLegacy"
    /\ IF ~validateInputs(form)
       THEN formPc' = "rejected" /\ UNCHANGED started
       ELSE formPc' = "started" /\ started' = StartedWith("legacy", form)
    /\ UNCHANGED <<form, notForm>>

FormNext == RunSimulationEntry \/ RunSimulationWithAdapterEntry \/ RunSimulationLegacyEntry

SpecForm == FormInit /\ [][FormNext]_vars

\* ------------------------------------------------------------------------
\* C21: a request with negative months or with a monthly budget that is not
\* positive (zero or negative) is rejected before any schedule is generated,
\* any worker is spawned or any path is simulated: whatever is started has
\* months >= 0 and a monthly budget above 0.
\* ------------------------------------------------------------------------
C21_InvalidRequestRejected ==
    formPc = "started" => started.months >= 0 /\ started.monthlyBudget > 0

\* ------------------------------------------------------------------------
\* SimulationAdapter.calculateRequiredBufferSize (scripts/adapter.js)
\* ------------------------------------------------------------------------
BASE_CASE_SIMULATIONS == 20000

calculateRequiredBufferSizeNoStrategyHeaders(uiInputs) ==
    LET headerSize == 2
        scenarioHeaderSize == 8
        baseSimCount == OrDefault(uiInputs.baselineSimulationCount, BASE_CASE_SIMULATIONS)
        benchmarkSize == scenarioHeaderSize + baseSimCount
        numLeveragedStrategies == OrDefault(uiInputs.numStrategies, NUM_STRATEGIES - 1)
        leveragedSize == numLeveragedStrategies * uiInputs.simulationCount
    IN  headerSize + benchmarkSize + leveragedSize

calculateRequiredBufferSize(uiInputs) ==
    LET headerSize == 2
        scenarioHeaderSize == 8
        baseSimCount == OrDefault(uiInputs.baselineSimulationCount, BASE_CASE_SIMULATIONS)
        benchmarkSize == scenarioHeaderSize + baseSimCount
        numLeveragedStrategies == OrDefault(uiInputs.numStrategies, NUM_STRATEGIES - 1)
        leveragedSize == numLeveragedStrategies * (scenarioHeaderSize + uiInputs.simulationCount)
    IN  headerSize + benchmarkSize + leveragedSize

\* ------------------------------------------------------------------------
\* C22: for numStrategies >= 1 and any baseline and leveraged count, the
\* number of elements runSimulation writes to the output buffer, and the
\* value it returns on success, is at most the size computed by
\* calculateRequiredBufferSize, 2 + (8 + B) + N * (8 + S).
\* ------------------------------------------------------------------------
C22_WrittenWithinRequiredSize ==
    runInputs # NoArgs /\ runInputs.numStrategies >= 1
    => /\ lastWrite + 1 <= calculateRequiredBufferSize(runInputs)
       /\ outputIdx <= calculateRequiredBufferSize(runInputs)
       /\ (runPc = "returned" /\ outStatus = 0)
             => runReturn <= calculateRequiredBufferSize(runInputs)
       /\ lastWrite + 1 <= 2 + (8 + runInputs.baselineSimulationCount)
                             + runInputs.numStrategies * (8 + runInputs.simulationCount)

\* A successful run of two or more strategies in which every path of every
\* scenario survived and was stored: the required size is used up.
C22_Witness ==
    /\ runPc = "returned"
    /\ outStatus = 0
    /\ runInputs.numStrategies >= 2
    /\ runInputs.simulationCount > 0
    /\ runReturn = calculateRequiredBufferSize(runInputs)

\* ------------------------------------------------------------------------
\* runSimulationLegacy (scripts/script.js): the schedules it pre-calculates
\* and the loop over the strategies that uses them.  Money is counted in
\* units of 1 / (numSteps - 1), so that every payment is an integer.
\* ------------------------------------------------------------------------
\* const numSteps = UI_CONSTANTS.NUM_STRATEGIES
numSteps == NUM_STRATEGIES

\* percentOfMax = minPaymentPercent + i * stepSize, with minPaymentPercent =
\* minPayment / maxPayment * 100 and stepSize = (100 - minPaymentPercent) /
\* (numSteps - 1); payment = percentOfMax / 100 * maxPayment.
PaymentOfStep(i, minPayment, maxPayment) ==
    minPayment * (numSteps - 1) + i * (maxPayment - minPayment)

\* Benchmark schedule: no debt, just full budget deposits.
BenchmarkSchedule(monthlyBudget, months) ==
    [debtPath |-> [t \in 0..months |-> 0],
     depositPath |-> [t \in 0..months |-> IF t = 0 THEN 0 ELSE monthlyBudget]]

LegInit ==
    /\ GenIdle
    /\ AggIdle
    /\ DispIdle
    /\ RunIdle
    /\ PathIdle
    /\ RecvIdle
    /\ MarshalIdle
    /\ BatIdle
    /\ WkIdle
    /\ FormIdle
    /\ AdapterIdle
    /\ legPc = "schedules"
    /\ legArgs \in [loan : 1..MaxLoan, mRate : 0..MaxRate, minPayment : 0..1,
                    monthlyBudget : 1..2, months : 1..MaxMonths]
    /\ allSchedules = EmptyArr
    /\ schedulePayments = EmptyArr
    /\ legI = 0
    /\ legResults = EmptyArr

\* allSchedules.push({ debtPath: benchmarkDebt, depositPath: benchmarkDeposits })
LegacyBenchmarkSchedule ==
    /\ legPc = "schedules"
    /\ ArrLen(allSchedules) = 0
    /\ allSchedules' = Push(allSchedules,
                            BenchmarkSchedule(legArgs.monthlyBudget * (numSteps - 1), legArgs.months))
    /\ schedulePayments' = Push(schedulePayments, 0)
    /\ legI' = 0
    /\ UNCHANGED <<legPc, legArgs, legResults, notLeg>>

\* for (let i = 0; i < numSteps - 1; i++) { ... allSchedules.push(schedule); }
LegacyLeveragedSchedule ==
    /\ legPc = "schedules"
    /\ ArrLen(allSchedules) > 0
    /\ IF legI < numSteps - 1
       THEN LET payment == PaymentOfStep(legI, legArgs.minPayment, legArgs.monthlyBudget)
                schedule == generateCashFlowSchedule(legArgs.loan * (numSteps - 1), legArgs.mRate,
                                                     payment,
                                                     legArgs.monthlyBudget * (numSteps - 1),
                                                     legArgs.months)
            IN  /\ allSchedules' = Push(allSchedules, schedule)
                /\ schedulePayments' = Push(schedulePayments, payment)
                /\ legI' = legI + 1
                /\ UNCHANGED legPc
       ELSE /\ legPc' = "strategies"
            /\ legI' = 0
            /\ UNCHANGED <<allSchedules, schedulePayments>>
    /\ UNCHANGED <<legArgs, legResults, notLeg>>

\* for (let i = 0; i < numSteps; i++) { ... const schedule = allSchedules[i + 1];
\* const depositPath = schedule.depositPath; ... results.push({...}) }: reading a
\* property of undefined throws a TypeError.  (The paths of the strategy
\* are the subject of the path specification.)
LegacyStrategy ==
    /\ legPc = "strategies"
    /\ IF legI < numSteps
       THEN IF legI + 1 \in DOMAIN allSchedules
            THEN /\ legResults' = Push(legResults,
                        [paymentAmount |-> PaymentOfStep(legI, legArgs.minPayment, legArgs.monthlyBudget),
                         debtPath |-> allSchedules[legI + 1].debtPath,
                         depositPath |-> allSchedules[legI + 1].depositPath])
                 /\ legI' = legI + 1
                 /\ UNCHANGED legPc
            ELSE /\ legPc' = "threw"
                 /\ UNCHANGED <<legI, legResults>>
       ELSE /\ legPc' = "returned"
            /\ UNCHANGED <<legI, legResults>>
    /\ UNCHANGED <<legArgs, allSchedules, schedulePayments, notLeg>>

LegNext == LegacyBenchmarkSchedule \/ LegacyLeveragedSchedule \/ LegacyStrategy

SpecLegacy == LegInit /\ [][LegNext]_vars

\* ------------------------------------------------------------------------
\* C23: in runSimulationLegacy every strategy index i visited by the
\* results loop (0 <= i < NUM_STRATEGIES) has a pre-calculated schedule of
\* its own at allSchedules[i + 1], generated with the payment amount that
\* is reported for strategy i.
\* ------------------------------------------------------------------------
C23_EveryStrategyHasItsSchedule ==
    (legPc \in {"strategies", "threw"} /\ legI < numSteps)
    => /\ legPc = "strategies"
       /\ legI + 1 \in DOMAIN allSchedules
       /\ legI + 1 \in DOMAIN schedulePayments
       /\ schedulePayments[legI + 1] = PaymentOfStep(legI, legArgs.minPayment, legArgs.monthlyBudget)

\* ------------------------------------------------------------------------
\* C24: for a strategy with no debt (the benchmark; a schedule whose
\* debtPath is 0 in every month) and pathCount > 0, no path is ever ruined:
\* every path is a survivor and the survival rate is 100.
\* ------------------------------------------------------------------------
HasNoDebt ==
    /\ pathArgs # NoArgs
    /\ \/ IsBenchmark(pathArgs)
       \/ IsLegacy(pathArgs) /\ \A t \in 0..pathArgs.months : PathSchedule(pathArgs).debtPath[t] = 0

C24_NoDebtNoRuin ==
    HasNoDebt
    => /\ ~ruined
       /\ Breached = {}
       /\ (pathPc = "done" /\ pathArgs.simCount > 0)
             => /\ Cardinality(Survivors) = pathArgs.simCount
                /\ pathOutcome.count = pathArgs.simCount
                /\ pathOutcome.survivalRate.den > 0
                /\ pathOutcome.survivalRate.num = 100 * pathOutcome.survivalRate.den

\* A strategy without debt has finished two paths of two months, one of
\* which lost value in a month.
C24_Witness ==
    /\ HasNoDebt
    /\ IsLegacy(pathArgs)
    /\ pathPc = "done"
    /\ pathArgs.months >= 2
    /\ Cardinality(Survivors) >= 2
    /\ \E p \in Survivors : paths[p].wealth < pathArgs.initialEquity

C24_WitnessBenchmark ==
    /\ IsBenchmark(pathArgs)
    /\ pathPc = "done"
    /\ Cardinality(Survivors) >= 2

\* ------------------------------------------------------------------------
\* C25: in runSimulationWithAdapter the promise of each strategy unit is
\* settled exactly once, by whichever of its three events (worker message,
\* worker error event, timeout expiry) is handled first; an event handled
\* after the promise is settled does not change the outcome, and the
\* timeout never fires after a message or error event has been handled.
\* ------------------------------------------------------------------------
UnitEventHandled(i) ==
    \/ worker[i] # "terminated" /\ worker'[i] = "terminated"
    \/ timeout[i] # "fired" /\ timeout'[i] = "fired"

UnitSettlesOnce ==
    (dispPc \in {"waiting", "returned"} /\ worker # <<>>)
    => \A i \in UnitIndices :
          /\ promise[i] # "pending" => promise'[i] = promise[i] /\ settled'[i] = settled[i]
          /\ (promise[i] = "pending" /\ UnitEventHandled(i)) => promise'[i] # "pending"
          /\ (promise[i] = "pending" /\ promise'[i] # "pending") => UnitEventHandled(i)
          /\ (timeout[i] # "fired" /\ timeout'[i] = "fired")
                => worker[i] # "terminated" /\ timeout[i] = "armed"
          /\ worker[i] = "terminated" => timeout'[i] # "armed"

C25_SettledOnceByFirstEvent == [][UnitSettlesOnce]_vars

\* The timeout of a unit has fired and rejected its promise, and the
\* message of its worker was handled afterwards: the promise still holds
\* the timeout error.
C25_Witness ==
    /\ dispPc = "returned"
    /\ \E i \in UnitIndices :
          /\ timeout[i] = "fired"
          /\ worker[i] = "terminated"
          /\ promise[i] = "rejected"
          /\ settled[i] = StrategyError(i, "worker timeout")

\* ------------------------------------------------------------------------
\* SimulationAdapter (scripts/adapter.js): the constructor, initWorker, run
\* up to its await, and the worker that answers the requests
\* (self.onmessage of the batch worker)
\* ------------------------------------------------------------------------
MaxRequests == 3

MaxCrashes == 2

ReadyMessage == [ready |-> TRUE, id |-> -1, success |-> FALSE]

Response(id, success) == [ready |-> FALSE, id |-> id, success |-> success]

AfterResponseKeeps(pending, id) == pending

\* this.pendingRequests.delete(id)
AfterResponse(pending, id) == pending \ {id}

\* constructor()
AdapterInit ==
    /\ GenIdle
    /\ AggIdle
    /\ DispIdle
    /\ RunIdle
    /\ PathIdle
    /\ RecvIdle
    /\ MarshalIdle
    /\ BatIdle
    /\ WkIdle
    /\ FormIdle
    /\ LegIdle
    /\ adWorker = "none"
    /\ requestId = 0
    /\ pendingRequests = {}
    /\ adSent = EmptyArr
    /\ adPromise = <<>>
    /\ settleCalls = <<>>
    /\ workerInbox = {}
    /\ adInbox = <<>>
    /\ crashes = 0

\* run(uiInputs) up to `await promise`: initWorker (the new worker posts
\* its ready message), requestId++, pendingRequests.set, postMessage.
AdapterRun ==
    /\ adWorker \in {"none", "created"}
    /\ ArrLen(adSent) < MaxRequests
    /\ adWorker' = "created"
    /\ adInbox' = IF adWorker = "none" THEN Append(adInbox, ReadyMessage) ELSE adInbox
    /\ requestId' = requestId + 1
    /\ pendingRequests' = pendingRequests \cup {requestId}
    /\ adSent' = Push(adSent, requestId)
    /\ adPromise' = (requestId :> "pending") @@ adPromise
    /\ settleCalls' = (requestId :> 0) @@ settleCalls
    /\ workerInbox' = workerInbox \cup {requestId}
    /\ UNCHANGED <<crashes, notAdapter>>

\* self.onmessage of the worker, for one of the requests it has received:
\* it posts one message with the id of the request, a success or a failure.
WorkerAnswers ==
    /\ \E id \in workerInbox, success \in BOOLEAN :
          /\ workerInbox' = workerInbox \ {id}
          /\ adInbox' = Append(adInbox, Response(id, success))
    /\ UNCHANGED <<adWorker, requestId, pendingRequests, adSent, adPromise, settleCalls, crashes, notAdapter>>

\* this.worker.onmessage
AdapterOnMessage ==
    /\ adInbox # <<>>
    /\ LET data == Head(adInbox)
       IN  IF data.ready \/ data.id \notin pendingRequests
           THEN UNCHANGED <<pendingRequests, adPromise, settleCalls>>
           ELSE /\ pendingRequests' = AfterResponse(pendingRequests, data.id)
                /\ settleCalls' = [settleCalls EXCEPT ![data.id] = @ + 1]
                /\ adPromise' = [adPromise EXCEPT ![data.id] =
                                    IF @ # "pending" THEN @
                                    ELSE IF data.success THEN "resolved" ELSE "rejected"]
    /\ adInbox' = Tail(adInbox)
    /\ UNCHANGED <<adWorker, requestId, adSent, workerInbox, crashes, notAdapter>>

\* this.worker.onerror: an error event of the worker; the worker object is
\* kept and goes on answering.
AdapterOnError ==
    /\ adWorker = "created"
    /\ crashes < MaxCrashes
    /\ crashes' = crashes + 1
    /\ settleCalls' = [id \in DOMAIN settleCalls |->
                          IF id \in pendingRequests THEN settleCalls[id] + 1 ELSE settleCalls[id]]
    /\ adPromise' = [id \in DOMAIN adPromise |->
                        IF id \in pendingRequests /\ adPromise[id] = "pending"
                        THEN "rejected" ELSE adPromise[id]]
    /\ pendingRequests' = {}
    /\ UNCHANGED <<adWorker, requestId, adSent, workerInbox, adInbox, notAdapter>>

AdapterNext == AdapterRun \/ WorkerAnswers \/ AdapterOnMessage \/ AdapterOnError

SpecAdapter == AdapterInit /\ [][AdapterNext]_vars

\* ------------------------------------------------------------------------
\* C26: in SimulationAdapter, for any interleaving of run() calls and
\* worker responses: request ids are pairwise distinct, pendingRequests
\* holds exactly the requests that were sent and are not yet settled, a
\* response with id k settles only request k and removes it, every request
\* is settled at most once, and a worker error event rejects every pending
\* request and leaves pendingRequests empty.
\* ------------------------------------------------------------------------
AdapterStateConsistent ==
    /\ \A i, j \in DOMAIN adSent : i # j => adSent[i] # adSent[j]
    /\ pendingRequests = {adSent[i] : i \in {j \in DOMAIN adSent : adPromise[adSent[j]] = "pending"}}
    /\ \A id \in DOMAIN settleCalls : settleCalls[id] <= 1

AdapterStepSettlesOwnRequest ==
    /\ AdapterStateConsistent
    /\ (adInbox # <<>> /\ adInbox' = Tail(adInbox) /\ ~Head(adInbox).ready)
          => LET k == Head(adInbox).id
             IN  /\ \A id \in DOMAIN adPromise : id # k => adPromise'[id] = adPromise[id]
                 /\ k \in pendingRequests
                       => /\ k \notin pendingRequests'
                          /\ adPromise'[k] = (IF Head(adInbox).success THEN "resolved" ELSE "rejected")
    /\ crashes' = crashes + 1
          => /\ pendingRequests' = {}
             /\ \A id \in pendingRequests : adPromise'[id] = "rejected"
             /\ \A id \in DOMAIN adPromise : id \notin pendingRequests => adPromise'[id] = adPromise[id]

C26_RequestsSettleOnce == [][AdapterStepSettlesOwnRequest]_vars

\* Two requests were pending at once; one was answered out of order and
\* resolved, the other was rejected by an error event of the worker, whose
\* late answer was then dropped.
C26_Witness ==
    /\ ArrLen(adSent) >= 2
    /\ crashes >= 1
    /\ adPromise[1] = "resolved"
    /\ adPromise[0] = "rejected"
    /\ workerInbox = {}
    /\ adInbox = <<>>
    /\ pendingRequests = {}

\* ------------------------------------------------------------------------
\* The simulation worker (self.onmessage and initWasm of scripts/adapter.js
\* and of the batch worker) handling several request messages.  A handler
\* runs until it returns or reaches an await; wkRunning is the handler that
\* is executing.
\* ------------------------------------------------------------------------
MaxHandlers == 3

HandlerIds == 0..(MaxHandlers - 1)

NoMessage == [posted |-> FALSE, success |-> FALSE, computedFrom |-> -1]

YieldsAfterMarshal(kind, pos) == pos \in {"awaitInit", "awaitInstantiate", "run"}

\* The positions at which a handler gives up the thread: the awaits of
\* `await initWasm()` (inside it, the awaits of fetch and instantiate).
Yields(kind, pos) == pos \in {"awaitInit", "awaitInstantiate"}

\* if (!wasmInstance) await initWasm()  (strategy worker)
\* await initWasm()                     (batch worker)
AwaitsInit(kind, instance) == kind = "batch" \/ instance = -1

WkInit ==
    /\ GenIdle
    /\ AggIdle
    /\ DispIdle
    /\ RunIdle
    /\ PathIdle
    /\ RecvIdle
    /\ MarshalIdle
    /\ FormIdle
    /\ LegIdle
    /\ AdapterIdle
    /\ BatIdle
    /\ wkKind \in {"strategy", "batch"}
    /\ wkPos = [k \in HandlerIds |-> "queued"]
    /\ wkRunning = -1
    /\ wasmInstance = -1
    /\ wasmInput = [k \in HandlerIds |-> -1]
    /\ wasmOutput = [k \in HandlerIds |-> -1]
    /\ wkPosted = [k \in HandlerIds |-> NoMessage]

\* The position a handler moves to, and whether it keeps the thread.
MoveTo(k, pos) ==
    /\ wkPos' = [wkPos EXCEPT ![k] = pos]
    /\ wkRunning' = IF Yields(wkKind, pos) \/ pos = "done" THEN -1 ELSE k

\* self.onmessage is called with the next message: up to the first await.
\* initWasm returns at once when wasmInstance is set, and starts the fetch
\* otherwise.
HandlerStarts(k) ==
    /\ wkRunning = -1
    /\ wkPos[k] = "queued"
    /\ \A j \in HandlerIds : j < k => wkPos[j] # "queued"
    /\ MoveTo(k, IF ~AwaitsInit(wkKind, wasmInstance) THEN "marshal"
                 ELSE IF wasmInstance # -1 THEN "awaitInit"
                 ELSE "awaitInstantiate")
    /\ UNCHANGED <<wkKind, wasmInstance, wasmInput, wasmOutput, wkPosted, notWk>>

\* The awaits of initWasm complete: wasmInstance and wasmMemory are set to
\* the new instance, or the load fails and the handler posts the failure.
InitCompletes(k) ==
    /\ wkRunning = -1
    /\ wkPos[k] \in {"awaitInit", "awaitInstantiate"}
    /\ \E loaded \in BOOLEAN :
          IF wkPos[k] = "awaitInstantiate" /\ ~loaded
          THEN /\ MoveTo(k, "done")
               /\ wkPosted' = [wkPosted EXCEPT ![k] =
                                  [posted |-> TRUE, success |-> FALSE, computedFrom |-> -1]]
               /\ UNCHANGED wasmInstance
          ELSE /\ MoveTo(k, "marshal")
               /\ wasmInstance' = IF wkPos[k] = "awaitInstantiate" THEN k ELSE wasmInstance
               /\ UNCHANGED wkPosted
    /\ UNCHANGED <<wkKind, wasmInput, wasmOutput, notWk>>

\* marshalInputs(inputs) / inputView[0] = inputs.loanAmount; ...
HandlerWritesInputs(k) ==
    /\ wkRunning \in {-1, k}
    /\ wkRunning = -1 => Yields(wkKind, wkPos[k])
    /\ wkPos[k] = "marshal"
    /\ wasmInput' = [wasmInput EXCEPT ![wasmInstance] = k]
    /\ MoveTo(k, "run")
    /\ UNCHANGED <<wkKind, wasmInstance, wasmOutput, wkPosted, notWk>>

\* wasmInstance.exports.runSimulation()
HandlerRunsSimulation(k) ==
    /\ wkRunning \in {-1, k}
    /\ wkRunning = -1 => Yields(wkKind, wkPos[k])
    /\ wkPos[k] = "run"
    /\ wasmOutput' = [wasmOutput EXCEPT ![wasmInstance] = wasmInput[wasmInstance]]
    /\ MoveTo(k, "copy")
    /\ UNCHANGED <<wkKind, wasmInstance, wasmInput, wkPosted, notWk>>

\* The copy of the output buffer, the status check and self.postMessage.
HandlerPostsResult(k) ==
    /\ wkRunning \in {-1, k}
    /\ wkRunning = -1 => Yields(wkKind, wkPos[k])
    /\ wkPos[k] = "copy"
    /\ \E statusOk \in BOOLEAN :
          wkPosted' = [wkPosted EXCEPT ![k] =
                          [posted |-> TRUE, success |-> statusOk,
                           computedFrom |-> IF statusOk THEN wasmOutput[wasmInstance] ELSE -1]]
    /\ MoveTo(k, "done")
    /\ UNCHANGED <<wkKind, wasmInstance, wasmInput, wasmOutput, notWk>>

WkNext ==
    \E k \in HandlerIds :
        \/ HandlerStarts(k)
        \/ InitCompletes(k)
        \/ HandlerWritesInputs(k)
        \/ HandlerRunsSimulation(k)
        \/ HandlerPostsResult(k)

SpecWorker == WkInit /\ [][WkNext]_vars

\* ------------------------------------------------------------------------
\* C27: when the worker handles several request messages at once (their
\* handlers interleave at the await on WASM initialisation), the result
\* posted for request k is computed from the inputs of request k: between
\* writing the inputs of request k and copying the output for request k no
\* other request's inputs are written and no other run starts.
\* ------------------------------------------------------------------------
C27_ResultFromOwnInputs ==
    /\ \A k \in HandlerIds :
          /\ wkPos[k] \in {"run", "copy"} => wasmInput[wasmInstance] = k
          /\ wkPos[k] = "copy" => wasmOutput[wasmInstance] = k
          /\ (wkPosted[k].posted /\ wkPosted[k].success) => wkPosted[k].computedFrom = k
    /\ Cardinality({k \in HandlerIds : wkPos[k] \in {"run", "copy"}}) <= 1

\* Every request was answered with a result although two handlers were
\* initialising WASM at once and the instance was replaced.
C27_Witness ==
    /\ \A k \in HandlerIds : wkPosted[k].posted /\ wkPosted[k].success
    /\ wasmInstance > 0
    /\ wasmInput[0] = 0

\* ------------------------------------------------------------------------
\* The batch pipeline: SimulationAdapter.run posts uiInputs to the batch
\* worker, which writes the input buffer and calls runSimulation, and
\* SimulationAdapter.unmarshallResults reads the buffer the worker posts.
\* ------------------------------------------------------------------------
BatchInit ==
    /\ GenIdle
    /\ AggIdle
    /\ DispIdle
    /\ RunIdle
    /\ PathIdle
    /\ RecvIdle
    /\ FormIdle
    /\ LegIdle
    /\ AdapterIdle
    /\ WkIdle
    /\ marshalPc = "request"
    /\ request \in BatchRequests
    /\ inputBuffer = Zeros(INPUT_SLOTS)
    /\ simInputs = NoResult
    /\ batRead = NoResult

\* The batch worker writes the input buffer.
BatchWorkerWrites ==
    /\ marshalPc = "request"
    /\ inputBuffer' = WriteSlots(inputBuffer, BatchSlots(request), 0)
    /\ marshalPc' = "marshalled"
    /\ UNCHANGED <<request, simInputs, genVars, aggVars, dispVars, runVars, pathVars, recvVars, formVars, legVars, adapterVars, wkVars, batVars>>

\* wasmInstance.exports.runSimulation() is called: it reads its inputs.
BatchSimulatorStarts ==
    /\ marshalPc = "marshalled"
    /\ runPc = "idle"
    /\ simInputs' = ReadInputs(inputBuffer)
    /\ marshalPc' = "read"
    /\ runInputs' = [numStrategies |-> ReadInputs(inputBuffer).numStrategies,
                     simulationCount |-> ReadInputs(inputBuffer).simulationCount,
                     baselineSimulationCount |-> ReadInputs(inputBuffer).baselineSimulationCount]
    /\ runPc' = "start"
    /\ UNCHANGED <<request, inputBuffer, outputIdx, outStatus, outScenarios, strategyI, blocks, lastWrite, runReturn, genVars, aggVars, dispVars, pathVars, recvVars, formVars, legVars, adapterVars, wkVars, batVars>>

\* buffer[startPos + 7] of a buffer of `size` elements: the count field of
\* the block written there, and undefined (no wealth value is read) past
\* the end.
ArrayLengthAt(pos, size) ==
    IF pos + 7 < size /\ \E b \in DOMAIN blocks : blocks[b].start = pos
    THEN blocks[CHOOSE b \in DOMAIN blocks : blocks[b].start = pos].count
    ELSE 0

\* The benchmark and then n strategies read with readScenario from pos: the
\* number of strategy blocks read and the greatest index read.
RECURSIVE ReadBlocks(_, _, _, _, _)
ReadBlocks(i, n, pos, size, last) ==
    IF i > n THEN [failed |-> FALSE, blocksRead |-> n, lastRead |-> last]
    ELSE LET extent == ReadScenarioExtent(pos, ArrayLengthAt(pos, size))
         IN  ReadBlocks(i + 1, n, extent.nextPos, size, Max(last, extent.nextPos - 1))

\* The worker checks the status and posts the first outputSize elements;
\* unmarshallResults reads the benchmark and numLeveragedStrategies blocks.
AdapterReadsBuffer ==
    /\ runPc = "returned"
    /\ batRead = NoResult
    /\ batRead' = IF BatchWorkerStatusFails(Arr(<<outStatus>>)) \/ runReturn < 2
                  THEN [failed |-> TRUE, blocksRead |-> 0, lastRead |-> -1]
                  ELSE ReadBlocks(0, NumLeveragedStrategies(request.numStrategies), 2, runReturn, 1)
    /\ UNCHANGED <<genVars, aggVars, dispVars, runVars, pathVars, recvVars, marshalVars, formVars, legVars, adapterVars, wkVars>>

BatchNext ==
    \/ BatchWorkerWrites
    \/ BatchSimulatorStarts
    \/ RunHeader
    \/ RunBenchmark
    \/ RunStrategy
    \/ RunReturns
    \/ AdapterReadsBuffer

SpecBatch == BatchInit /\ [][BatchNext]_vars

\* ------------------------------------------------------------------------
\* C28: for every input the batch pipeline accepts (numStrategies absent or
\* 0 included), the number of leveraged scenario blocks unmarshallResults
\* reads is the scenario count of header field [1] minus one, and no read
\* goes past the number of elements the simulator reported.
\* ------------------------------------------------------------------------
C28_ReadsWhatWasWritten ==
    (batRead # NoResult /\ ~batRead.failed)
    => /\ batRead.blocksRead = outScenarios - 1
       /\ batRead.lastRead < runReturn

\* ------------------------------------------------------------------------
\* The dispatch under the scheduling of the event loop: an event posted by
\* a worker is eventually handled by its handler, and an armed timer that is
\* not cleared eventually fires.  Nothing makes a worker answer: the
\* timeout is there for the worker that does not.
\* ------------------------------------------------------------------------
EventLoopFairness ==
    \A i \in UnitIndices :
        /\ WF_vars(OnMessage(i))
        /\ WF_vars(OnError(i))
        /\ WF_vars(TimeoutFires(i))

SpecDispatchFair == DispatchInit /\ [][DispatchNext]_vars /\ EventLoopFairness

\* worker.terminate() has been called on every worker that was created.
AllWorkersTerminated == \A i \in UnitIndices : worker[i] \in {"none", "terminated"}

\* ------------------------------------------------------------------------
\* C29: once runSimulationWithAdapter has settled (an aggregate or a
\* failure), every worker it spawned has been terminated or is eventually
\* terminated, the workers of the units that timed out and of the units
\* still running when another unit failed included.
\* ------------------------------------------------------------------------
C29_WorkersEventuallyTerminated == (dispPc = "returned") ~> AllWorkersTerminated

\* ------------------------------------------------------------------------
\* C30: in the path simulator, whenever the debt at a month is positive and
\* the balance after that month's update is zero or negative, the path is
\* ruined at that month: no path goes on, or survives, past a month with a
\* non-positive balance and a positive debt.
\* ------------------------------------------------------------------------
C30_NonPositiveBalanceRuins ==
    (pathPc = "month" /\ pathT >= 1 /\ ~IsBenchmark(pathArgs) /\ debt > 0 /\ assets <= 0)
    => ruined

====
